---- MODULE Spec2Model ----
(***************************************************************************)
(* Calibration solution aggregation and phase-ramp fitting of              *)
(* demo/82_calfit.py: the metafits reconciliation, the solution-file       *)
(* channel mapper, the per-timeblock weight builder, fit_phase_line and    *)
(* the per-timeblock loop of main.                                         *)
(*                                                                         *)
(* Frequencies, widths and channel indices are integers (the code keeps    *)
(* them as integer Hz).  A raised exception is a string naming it; "none"  *)
(* means the call returned.                                                *)
(***************************************************************************)
EXTENDS Integers, Sequences, FiniteSets, TLC

VARIABLES
    metafits,               \* the metafits files given to the run (their content)
    solns,                  \* the solution files given to the run (their content)
    pc,                     \* where the run is
    err,                    \* the exception that ended the call, "none" if it returned
    metafits_tiles_df,      \* HyperfitsSolutionGroup.metafits_tiles_df
    metafits_chan_info,     \* HyperfitsSolutionGroup.metafits_chan_info
    chanblocks_per_coarse,  \* HyperfitsSolutionGroup.chanblocks_per_coarse
    all_chanblocks_hz,      \* HyperfitsSolutionGroup.all_chanblocks_hz
    fit_args,               \* the arrays the caller passes to fit_phase_line
    fit,                    \* the local variables of the running fit_phase_line
    args,                   \* the command line arguments of main
    main,                   \* the local variables of main
    fit_calls,              \* how often main has called fit_phase_line, and whether a call raised
    jones,                  \* get_ref_solutions: its solutions, ref_tile_idx and result
    gain,                   \* fit_gain: its arguments and its result
    debug,                  \* debug_phase_fits: its frames and its position
    access,                 \* the last accessor called on the group and its result
    angle                   \* wrap_angle: its argument and its results

groupVars == <<metafits_tiles_df, metafits_chan_info, chanblocks_per_coarse,
               all_chanblocks_hz>>
inputVars == <<metafits, solns, args>>
fitVars == <<fit_args, fit>>
mainVars == <<main, fit_calls>>
unitVars == <<jones, gain, debug, access, angle>>
vars == <<metafits, solns, args, pc, err, groupVars, fitVars, mainVars, unitVars>>

None == "None"

\* no solution group has been constructed
NoGroupYet ==
    /\ metafits_tiles_df = None
    /\ metafits_chan_info = None
    /\ chanblocks_per_coarse = None
    /\ all_chanblocks_hz = None

\* fit_phase_line is not running
NoFitCall ==
    /\ fit_args = None
    /\ fit = None

\* get_ref_solutions is not called
NoJones == jones = None

\* fit_gain is not called
NoGain == gain = None

\* debug_phase_fits is not called
NoDebug == debug = None

\* no accessor of the group is called
NoAccess == access = [accessor |-> None, raised |-> "none", ret |-> None]

\* wrap_angle is not called
NoAngle == angle = None

\* none of the functions checked on their own is called
NoUnitCall == NoJones /\ NoGain /\ NoDebug /\ NoAccess /\ NoAngle

\* no command line: the call is not made by main
NoArgs == [max_timeblocks_given |-> FALSE, max_timeblocks |-> 0, fit_iono |-> FALSE]

\* the locals of main before line 1669
NoLocals ==
    [refant_name |-> None, soln_tile_ids |-> <<>>, n_avg_times |-> 0,
     time_index |-> 0, soln_idx |-> 0, pol |-> None, per_time_results |-> <<>>,
     weights_blocks |-> <<>>, weights_1d |-> <<>>, phase_fits_rows |-> <<>>,
     inplace |-> <<>>]

NoFitCalls == [n |-> 0, failed |-> FALSE]

\* main is not running
NoMainYet ==
    /\ args = NoArgs
    /\ main = NoLocals
    /\ fit_calls = NoFitCalls

-----------------------------------------------------------------------------
(* Sequence helpers *)

Range(s) == {s[i] : i \in DOMAIN s}

RECURSIVE Concat(_)
Concat(ss) == IF ss = <<>> THEN <<>> ELSE Head(ss) \o Concat(Tail(ss))

\* np.sort of an integer array: insertion of x into the sorted s
RECURSIVE InsertInt(_, _)
InsertInt(x, s) ==
    IF s = <<>> THEN <<x>>
    ELSE IF x < Head(s) THEN <<x>> \o s
    ELSE <<Head(s)>> \o InsertInt(x, Tail(s))

RECURSIVE np_sort(_)
np_sort(s) ==
    IF s = <<>> THEN <<>>
    ELSE InsertInt(s[Len(s)], np_sort(SubSeq(s, 1, Len(s) - 1)))

\* sorted(all_ranges, key=lambda x: x[0]): stable, by the first index
RECURSIVE InsertRange(_, _)
InsertRange(x, s) ==
    IF s = <<>> THEN <<x>>
    ELSE IF x[1] < Head(s)[1] THEN <<x>> \o s
    ELSE <<Head(s)>> \o InsertRange(x, Tail(s))

RECURSIVE SortRanges(_)
SortRanges(s) ==
    IF s = <<>> THEN <<>>
    ELSE InsertRange(s[Len(s)], SortRanges(SubSeq(s, 1, Len(s) - 1)))

-----------------------------------------------------------------------------
(* Metafits.chan_info *)

\* np.split(coarse_chans, np.where(np.diff(coarse_chans) != 1)[0] + 1)
RECURSIVE SplitRuns(_)
SplitRuns(s) ==
    IF Len(s) <= 1 THEN <<s>>
    ELSE LET rest == SplitRuns(Tail(s))
         IN  IF s[2] - s[1] # 1
             THEN <<<<s[1]>>>> \o rest
             ELSE <<<<s[1]>> \o Head(rest)>> \o Tail(rest)

\* m: the header of one metafits file.  The bandwidth sanity check of line 181
\* is taken to pass (BANDWDTH is not part of the header modelled here).
chan_info(m) ==
    LET coarse_chans == np_sort(m.coarse_chans)
    IN  IF m.obs_num_fine_chans % Len(coarse_chans) # 0
        THEN [raised |-> "ValueError: fine channels not a multiple of coarse channels",
              coarse_chan_ranges |-> <<>>,
              fine_chan_width_hz |-> m.fine_chan_width_hz,
              fine_chans_per_coarse |-> 0]
        ELSE [raised |-> "none",
              coarse_chan_ranges |-> SplitRuns(coarse_chans),
              fine_chan_width_hz |-> m.fine_chan_width_hz,
              fine_chans_per_coarse |-> m.obs_num_fine_chans \div Len(coarse_chans)]

-----------------------------------------------------------------------------
(* HyperfitsSolutionGroup.get_metafits_chan_info *)

NoChanInfo == [coarse_chan_ranges |-> <<>>, fine_chan_width_hz |-> 0,
               fine_chans_per_coarse |-> 0]

\* the mismatch test with the fine channel width comparison left out
ChanInfoMismatchWidthSkipped(first_chan_info, ci) ==
    IF ci.fine_chans_per_coarse # first_chan_info.fine_chans_per_coarse
    THEN "RuntimeError: fine channels per coarse mismatch"
    ELSE "none"

\* lines 403-414: the two comparisons against the first metafits
ChanInfoMismatch(first_chan_info, ci) ==
    IF ci.fine_chans_per_coarse # first_chan_info.fine_chans_per_coarse
    THEN "RuntimeError: fine channels per coarse mismatch"
    ELSE IF ci.fine_chan_width_hz # first_chan_info.fine_chan_width_hz
    THEN "RuntimeError: fine channel width mismatch"
    ELSE "none"

\* the overlap test with a strict comparison
RangesOverlapStrict(left, right) ==
    left[1] = right[1] \/ left[Len(left)] > right[1]

\* line 421
RangesOverlap(left, right) ==
    left[1] = right[1] \/ left[Len(left)] >= right[1]

\* lines 401-415: the loop over metafits[1:], from index i on
RECURSIVE CollectRanges(_, _, _, _)
CollectRanges(mf, i, first_chan_info, all_ranges) ==
    IF i > Len(mf) THEN [raised |-> "none", all_ranges |-> all_ranges]
    ELSE LET ci == chan_info(mf[i])
         IN  IF ci.raised # "none" THEN [raised |-> ci.raised, all_ranges |-> <<>>]
             ELSE IF ChanInfoMismatch(first_chan_info, ci) # "none"
             THEN [raised |-> ChanInfoMismatch(first_chan_info, ci), all_ranges |-> <<>>]
             ELSE CollectRanges(mf, i + 1, first_chan_info,
                                all_ranges \o ci.coarse_chan_ranges)

get_metafits_chan_info(mf) ==
    LET first_chan_info == chan_info(mf[1])
    IN  IF first_chan_info.raised # "none"
        THEN [raised |-> first_chan_info.raised, value |-> NoChanInfo]
        ELSE
        LET got == CollectRanges(mf, 2, first_chan_info,
                                 first_chan_info.coarse_chan_ranges)
        IN  IF got.raised # "none"
            THEN [raised |-> got.raised, value |-> NoChanInfo]
            ELSE
            LET all_ranges == SortRanges(got.all_ranges)
            IN  IF \E k \in 1..(Len(all_ranges) - 1) :
                       RangesOverlap(all_ranges[k], all_ranges[k + 1])
                THEN [raised |-> "RuntimeError: coarse channel ranges overlap",
                      value |-> NoChanInfo]
                ELSE [raised |-> "none",
                      value |-> [coarse_chan_ranges |-> all_ranges,
                                 fine_chan_width_hz |->
                                     first_chan_info.fine_chan_width_hz,
                                 fine_chans_per_coarse |->
                                     first_chan_info.fine_chans_per_coarse]]

-----------------------------------------------------------------------------
(* Metafits.tiles, Metafits.tiles_df *)

\* sorted(tiles, key=lambda tile: tile.id), tiles a set of Tile tuples.
\* The inputs below give every tile of one file its own id, so the order is
\* determined.
RECURSIVE SortTilesById(_)
SortTilesById(tileset) ==
    IF tileset = {} THEN <<>>
    ELSE LET t == CHOOSE x \in tileset : \A y \in tileset : x.id <= y.id
         IN  <<t>> \o SortTilesById(tileset \ {t})

\* a DataFrame is the sequence of its rows
tiles_df(m) == SortTilesById(m.tiles)

\* df[column]
Column(df, column) == [k \in DOMAIN df |-> df[k][column]]

-----------------------------------------------------------------------------
(* HyperfitsSolutionGroup.get_metafits_tiles_df *)

\* the compared columns with flavor left out
TileColumnsWithoutFlavor == {"name", "id", "rx", "slot"}

\* line 533: set(Tile._fields) - {"flag"}
TileColumns == {"name", "id", "rx", "slot", "flavor"}

get_metafits_tiles_df(mf) ==
    IF \E i \in 2..Len(mf) : \E column \in TileColumns :
           Column(tiles_df(mf[1]), column) # Column(tiles_df(mf[i]), column)
    THEN [raised |-> "RuntimeError: tiles dataframes from metafits do not match",
          value |-> <<>>]
    ELSE [raised |-> "none", value |-> tiles_df(mf[1])]

-----------------------------------------------------------------------------
(* HyperfitsSolution.chanblocks_hz *)

\* np.diff
np_diff(a) == [k \in 1..(Len(a) - 1) |-> a[k + 1] - a[k]]

\* the validation with the test of uniform spacing left out
chanblocks_hz_spacing_unchecked(soln) ==
    LET result == soln.chanblocks_hz
        diff == np_diff(result)
    IN  IF Len(result) = 0
        THEN [raised |-> "AssertionError: no chanblocks found", value |-> <<>>]
        ELSE IF Len(result) > 1 /\ ~(\A k \in DOMAIN diff : diff[k] >= 0)
        THEN [raised |-> "RuntimeError: chanblocks are not in ascending order",
              value |-> <<>>]
        ELSE [raised |-> "none", value |-> result]

\* soln.chanblocks_hz holds the Freq column of the CHANBLOCKS table
chanblocks_hz(soln) ==
    LET result == soln.chanblocks_hz
        diff == np_diff(result)
    IN  IF Len(result) = 0
        THEN [raised |-> "AssertionError: no chanblocks found", value |-> <<>>]
        ELSE IF Len(result) > 1 /\ ~(\A k \in DOMAIN diff : diff[k] >= 0)
        THEN [raised |-> "RuntimeError: chanblocks are not in ascending order",
              value |-> <<>>]
        ELSE IF Len(result) > 1 /\ ~(\A k \in 2..Len(diff) : diff[k] = diff[1])
        THEN [raised |-> "RuntimeError: chanblocks are not contiguous",
              value |-> <<>>]
        ELSE [raised |-> "none", value |-> result]

-----------------------------------------------------------------------------
(* HyperfitsSolutionGroup.get_soln_chan_info *)

\* Python's a // b on integers, b # 0
py_floordiv(a, b) == IF b > 0 THEN a \div b ELSE (0 - a) \div (0 - b)

RECURSIVE SumSeq(_)
SumSeq(a) == IF a = <<>> THEN 0 ELSE Head(a) + SumSeq(Tail(a))

\* lines 485-499: np.round(coarse_centroid_hz // metafits_coarse_bandwidth_hz),
\* the centroid being the mean of the chanblocks plus half a chanblock width
\* (the chanblock itself when the group has one chanblock)
coarse_chan_idx(coarse_chanblocks, chanblock_width_hz, metafits_coarse_bandwidth_hz) ==
    IF Len(coarse_chanblocks) = 1
    THEN coarse_chanblocks[1] \div metafits_coarse_bandwidth_hz
    ELSE (2 * SumSeq(coarse_chanblocks) + Len(coarse_chanblocks) * chanblock_width_hz)
             \div (2 * Len(coarse_chanblocks) * metafits_coarse_bandwidth_hz)

\* lines 482-512: the loop over the groups of np.split, from group k on;
\* the exception of the first group that fails, "none" when none does
RECURSIVE ClaimCoarseChans(_, _, _, _, _, _)
ClaimCoarseChans(groups, k, width_hz, bandwidth_hz, metafits_coarse_chans, soln_coarse_chans) ==
    IF k > Len(groups)
    THEN [raised |-> "none", soln_coarse_chans |-> soln_coarse_chans]
    ELSE
    LET coarse_chanblocks == groups[k]
        idx == coarse_chan_idx(coarse_chanblocks, width_hz, bandwidth_hz)
    IN  IF /\ Len(coarse_chanblocks) # 1
           /\ coarse_chanblocks[Len(coarse_chanblocks)] - coarse_chanblocks[1]
                  > bandwidth_hz
        THEN [raised |-> "RuntimeError: solution coarse bandwidth > metafits coarse bandwidth",
              soln_coarse_chans |-> soln_coarse_chans]
        ELSE IF idx \notin metafits_coarse_chans
        THEN [raised |-> "RuntimeError: coarse centroid not found in metafits coarse channels",
              soln_coarse_chans |-> soln_coarse_chans]
        ELSE IF idx \in Range(soln_coarse_chans)
        THEN [raised |-> "RuntimeError: coarse centroid already found in solution coarse channels",
              soln_coarse_chans |-> soln_coarse_chans]
        ELSE ClaimCoarseChans(groups, k + 1, width_hz, bandwidth_hz,
                              metafits_coarse_chans, Append(soln_coarse_chans, idx))

\* np.split(ary, sections) into `sections` equal parts (checked by the caller)
np_split(ary, sections) ==
    LET size == Len(ary) \div sections
    IN  [k \in 1..sections |-> SubSeq(ary, (k - 1) * size + 1, k * size)]

NoSolnChanInfo(raised) ==
    [raised |-> raised, chanblocks_per_coarse |-> None, all_chanblocks_hz |-> <<>>]

\* lines 450-524: the loop over solns, from solution i on; cpc is the
\* chanblocks_per_coarse of the solutions before i (None when i = 1)
RECURSIVE SolnLoop(_, _, _, _, _)
SolnLoop(chan_info_, sols, i, cpc, all) ==
    IF i > Len(sols)
    THEN [raised |-> "none", chanblocks_per_coarse |-> cpc, all_chanblocks_hz |-> all]
    ELSE
    LET cb == chanblocks_hz(sols[i])
        metafits_fine_chan_width_hz == chan_info_.fine_chan_width_hz
        metafits_fine_chans_per_coarse == chan_info_.fine_chans_per_coarse
        metafits_coarse_bandwidth_hz ==
            metafits_fine_chan_width_hz * metafits_fine_chans_per_coarse
        metafits_coarse_chans == Range(Concat(chan_info_.coarse_chan_ranges))
    IN  IF cb.raised # "none" THEN NoSolnChanInfo(cb.raised)
        ELSE IF Len(cb.value) < 2
        THEN NoSolnChanInfo("RuntimeError: not enough chanblocks found")
        ELSE
        LET chanblock_width_hz == cb.value[2] - cb.value[1]
        IN  IF chanblock_width_hz % metafits_fine_chan_width_hz # 0
            THEN NoSolnChanInfo("RuntimeError: chanblock width is not a multiple of fine channel width")
            ELSE
            LET chans_per_block == chanblock_width_hz \div metafits_fine_chan_width_hz
            IN  IF chans_per_block = 0
                THEN NoSolnChanInfo("ZeroDivisionError")
                ELSE
                LET chanblocks_per_coarse_ ==
                        py_floordiv(metafits_fine_chans_per_coarse, chans_per_block)
                IN  IF i > 1 /\ cpc # chanblocks_per_coarse_
                    THEN NoSolnChanInfo("RuntimeError: chanblocks_per_coarse does not match previous value")
                    ELSE IF chanblocks_per_coarse_ = 0
                    THEN NoSolnChanInfo("ZeroDivisionError")
                    ELSE
                    LET sections == py_floordiv(Len(cb.value), chanblocks_per_coarse_)
                    IN  IF sections <= 0 \/ Len(cb.value) % sections # 0
                        THEN NoSolnChanInfo("ValueError: array split does not result in an equal division")
                        ELSE
                        LET claimed == ClaimCoarseChans(
                                np_split(cb.value, sections), 1, chanblock_width_hz,
                                metafits_coarse_bandwidth_hz, metafits_coarse_chans,
                                <<>>)
                        IN  IF claimed.raised # "none"
                            THEN NoSolnChanInfo(claimed.raised)
                            ELSE SolnLoop(chan_info_, sols, i + 1,
                                          chanblocks_per_coarse_,
                                          Append(all, cb.value))

get_soln_chan_info(chan_info_, sols) == SolnLoop(chan_info_, sols, 1, None, <<>>)

-----------------------------------------------------------------------------
(* HyperfitsSolutionGroup.__init__ *)

NoGroup(raised) ==
    [raised |-> raised, metafits_tiles_df |-> None, metafits_chan_info |-> None,
     chanblocks_per_coarse |-> None, all_chanblocks_hz |-> None]

HyperfitsSolutionGroup(mf, sols) ==
    IF Len(mf) = 0 THEN NoGroup("RuntimeError: no metafits files provided")
    ELSE IF Len(sols) = 0 THEN NoGroup("RuntimeError: no solutions files provided")
    ELSE
    LET tdf == get_metafits_tiles_df(mf)
    IN  IF tdf.raised # "none" THEN NoGroup(tdf.raised)
        ELSE
        LET ci == get_metafits_chan_info(mf)
        IN  IF ci.raised # "none" THEN NoGroup(ci.raised)
            ELSE
            LET sci == get_soln_chan_info(ci.value, sols)
            IN  IF sci.raised # "none" THEN NoGroup(sci.raised)
                ELSE [raised |-> "none",
                      metafits_tiles_df |-> tdf.value,
                      metafits_chan_info |-> ci.value,
                      chanblocks_per_coarse |-> sci.chanblocks_per_coarse,
                      all_chanblocks_hz |-> sci.all_chanblocks_hz]

-----------------------------------------------------------------------------
(* fit_phase_line *)

(* A complex solution value is [finite, rotated]: whether np.isfinite holds   *)
(* of it, and how often it was multiplied by the phase difference.  A weight  *)
(* is a float [nan, num, den]: NaN, or the fraction num / den, den > 0.  The *)
(* phases only reach the minimizer, whose result is any one the data allow.  *)

isfinite(z) == z.finite

\* w > 0, which is False of NaN
WeightPositive(w) == ~w.nan /\ w.num > 0

\* np.argsort: the indices of a in ascending order of a's values
RECURSIVE InsertIndex(_, _, _)
InsertIndex(i, ind, a) ==
    IF ind = <<>> THEN <<i>>
    ELSE IF a[i] < a[Head(ind)] THEN <<i>> \o ind
    ELSE <<Head(ind)>> \o InsertIndex(i, Tail(ind), a)

RECURSIVE ArgsortUpTo(_, _)
ArgsortUpTo(a, n) ==
    IF n = 0 THEN <<>> ELSE InsertIndex(n, ArgsortUpTo(a, n - 1), a)

np_argsort(a) == ArgsortUpTo(a, Len(a))

\* a[ind], ind an index array
Take(a, ind) == [k \in 1..Len(ind) |-> a[ind[k]]]

\* np.where(...)[0]: the members of the index set S in ascending order
RECURSIVE np_where(_)
np_where(S) ==
    IF S = {} THEN <<>>
    ELSE LET k == CHOOSE x \in S : \A y \in S : x <= y
         IN  <<k>> \o np_where(S \ {k})

np_min(a) == CHOOSE x \in Range(a) : \A y \in Range(a) : x <= y

\* line 974: the upper limit of the number of refinement passes
SafetyLimit == 10

\* the two limits added up
sum_of(a, b) == a + b

max(a, b) == IF a >= b THEN a ELSE b

NoFrame(raised) == [raised |-> raised, frame |-> None]

\* the validity mask that also keeps channels of weight 0
ValidChannelsIgnoringWeights(solution, weights) ==
    np_where({k \in 1..Len(solution) : isfinite(solution[k])})

\* line 865: np.where(np.logical_and(np.isfinite(solution), weights > 0))[0]
ValidChannels(solution, weights) ==
    np_where({k \in 1..Len(solution) :
                 isfinite(solution[k]) /\ WeightPositive(weights[k])})

\* lines 846-919: from the call to the start of the refinement loop.  np.min
\* of the empty np.diff raises for fewer than two frequencies; a bin width of
\* 0 makes the number of FFT bins of line 894 infinite.
fit_phase_line_entry(a) ==
    LET nfreqs == Len(a.freqs_hz)
        ind == np_argsort(a.freqs_hz)
        freqs_hz == Take(a.freqs_hz, ind)
        solution == Take(a.solution, ind)
        weights == Take(a.weights, ind)
    IN  IF nfreqs < 2
        THEN NoFrame("ValueError: zero-size array to reduction operation minimum")
        ELSE
        LET dnu == np_min(np_diff(freqs_hz))
            mask == ValidChannels(solution, weights)
        IN  IF Len(mask) < 2
            THEN NoFrame("RuntimeError: Not enough valid phases to fit")
            ELSE IF dnu = 0
            THEN NoFrame("OverflowError: cannot convert float infinity to integer")
            ELSE [raised |-> "none",
                  frame |-> [nfreqs |-> nfreqs,
                             dnu |-> dnu,
                             mask |-> mask,
                             solution |-> Take(solution, mask),
                             nu |-> Take(freqs_hz, mask),
                             weights |-> Take(weights, mask),
                             fit_iono |-> a.fit_iono,
                             iteration_count |-> 0,
                             max_iterations |-> max(a.niter, SafetyLimit),
                             ret |-> None]]

\* line 976: the condition of the refinement loop
RefinementContinues(f) ==
    Len(f.mask) >= 2 /\ f.iteration_count < f.max_iterations

\* lines 977-1023: one pass of the loop; retained is the set of channels whose
\* residual is below twice the standard error of the slope
refinement_pass(f, retained) ==
    LET mask == np_where(retained)
    IN  [f EXCEPT !.mask = mask,
                  !.solution = Take(f.solution, mask),
                  !.nu = Take(f.nu, mask),
                  !.iteration_count = f.iteration_count + 1]

\* the PhaseFitInfo with the quality taken over the channels that passed the
\* validation
fit_phase_line_return_over_valid(f) ==
    [quality |-> <<Len(f.mask), Len(f.weights)>>, iono_alpha_is_nan |-> ~f.fit_iono]

\* lines 1025-1037: the PhaseFitInfo; quality is the fraction
\* <<len(mask), nfreqs>>, the fitted numbers are left open
fit_phase_line_return(f) ==
    [quality |-> <<Len(f.mask), f.nfreqs>>, iono_alpha_is_nan |-> ~f.fit_iono]

-----------------------------------------------------------------------------
(* HyperfitsSolution.results_per_time *)

(* A solution file is [chanblocks_hz, tile_flags, has_timeblocks,             *)
(* n_timeblocks, results_len, solutions_shape]: the Freq column, the Flag     *)
(* column of TILES, whether there is a TIMEBLOCKS table and its number of     *)
(* rows, the length of the flattened RESULTS and the [time, tile, chan]       *)
(* shape of SOLUTIONS.  The values of RESULTS and SOLUTIONS are read when     *)
(* the loop of main uses them.                                                *)

\* the number of rows of the reshaped RESULTS, or the exception
results_per_time(soln) ==
    LET nchan == Len(soln.chanblocks_hz)
        ntimes == soln.results_len \div nchan
    IN  IF chanblocks_hz(soln).raised # "none"
        THEN [raised |-> chanblocks_hz(soln).raised, rows |-> 0]
        ELSE IF soln.results_len = nchan THEN [raised |-> "none", rows |-> 1]
        ELSE IF soln.results_len % nchan = 0
        THEN IF soln.has_timeblocks /\ soln.n_timeblocks # ntimes
             THEN [raised |-> "RuntimeError: TIMEBLOCKS != RESULTS blocks", rows |-> 0]
             ELSE [raised |-> "none", rows |-> ntimes]
        ELSE [raised |-> "RuntimeError: RESULTS length not compatible with channels",
              rows |-> 0]

-----------------------------------------------------------------------------
(* The weights of one solution for one timeblock, main lines 1694-1708 *)

(* A results value is a float [nan, v], v in units of 1e-5; np.exp(-r) is     *)
(* the fixed-point number 1e9 * (1 - r + r^2 / 2), exact to the unit for the  *)
(* values the filter lets through.                                            *)

NaN == [nan |-> TRUE, v |-> 0]

Float(v) == [nan |-> FALSE, v |-> v]

\* line 1696: 1e-4, in units of 1e-5
RMax == 10

\* the unit of the fixed-point values of np.exp
ExpScale == 1000000000

\* the filter without the lower limit
invalid_to_nan_no_lower_limit(x) ==
    IF x.nan THEN x ELSE IF x.v > RMax THEN NaN ELSE x

\* lines 1695-1696: r[r < 0] = np.nan; r[r > 1e-4] = np.nan
invalid_to_nan(x) ==
    IF x.nan THEN x ELSE IF x.v < 0 THEN NaN ELSE IF x.v > RMax THEN NaN ELSE x

\* line 1697: np.exp(-r)
exp_neg(x) ==
    IF x.nan THEN NaN
    ELSE Float(ExpScale - (ExpScale \div 100000) * x.v + (x.v * x.v) \div 20)

Finite(a) == {a[k].v : k \in {j \in DOMAIN a : ~a[j].nan}}

\* np.nanmax, np.nanmin: NaN (and a warning) when every value is NaN
np_nanmax(a) ==
    IF Finite(a) = {} THEN NaN
    ELSE Float(CHOOSE x \in Finite(a) : \A y \in Finite(a) : x >= y)

np_nanmin(a) ==
    IF Finite(a) = {} THEN NaN
    ELSE Float(CHOOSE x \in Finite(a) : \A y \in Finite(a) : x <= y)

\* np.nan_to_num of a weight
nan_to_num(w) == IF w.nan THEN [nan |-> FALSE, num |-> 0, den |-> 1] ELSE w

NaNWeight == [nan |-> TRUE, num |-> 0, den |-> 1]

\* lines 1694-1702, r one row of results_per_time
timeblock_weights(r) ==
    LET filtered == [k \in DOMAIN r |-> invalid_to_nan(r[k])]
        exp_r == [k \in DOMAIN r |-> exp_neg(filtered[k])]
        hi == np_nanmax(exp_r)
        lo == np_nanmin(exp_r)
        denom == IF hi.nan \/ lo.nan THEN NaN ELSE Float(hi.v - lo.v)
    IN  IF denom.nan \/ denom.v = 0
        THEN [k \in DOMAIN r |->
                 nan_to_num(IF exp_r[k].nan THEN NaNWeight
                            ELSE [nan |-> FALSE, num |-> exp_r[k].v, den |-> ExpScale])]
        ELSE [k \in DOMAIN r |->
                 nan_to_num(IF exp_r[k].nan THEN NaNWeight
                            ELSE [nan |-> FALSE, num |-> exp_r[k].v - lo.v,
                                  den |-> denom.v])]

-----------------------------------------------------------------------------
(* HyperfitsSolutionGroup.refant and HyperfitsSolutionGroup.get_solns *)

\* lines 552-558: the flags of the tile table or-ed with the TILES flags of
\* every solution
MetafitsFlags(tiles, sols) == [k \in DOMAIN tiles |-> tiles[k].flag]

RefantFlags(tiles, sols) ==
    [k \in DOMAIN tiles |->
        tiles[k].flag \/ \E i \in DOMAIN sols : sols[i].tile_flags[k]]

\* the unflagged tile of lowest id, or the exception; assigning a Flag column
\* of another length to the table raises
refant(tiles, sols) ==
    LET flags == RefantFlags(tiles, sols)
        unflagged == {k \in DOMAIN tiles : ~flags[k]}
    IN  IF \E i \in DOMAIN sols : Len(sols[i].tile_flags) # Len(tiles)
        THEN [raised |-> "ValueError: Length of values does not match length of index",
              tile |-> None]
        ELSE IF unflagged = {}
        THEN [raised |-> "ValueError: No unflagged tiles found", tile |-> None]
        ELSE [raised |-> "none",
              tile |-> tiles[CHOOSE k \in unflagged :
                                 \A j \in unflagged :
                                     tiles[k].id < tiles[j].id
                                     \/ (tiles[k].id = tiles[j].id /\ k <= j)]]

NoSolns(raised) == [raised |-> raised, soln_tile_ids |-> <<>>, n_avg_times |-> 0]

\* len(avg_times) of lines 690-695
AvgTimesLen(soln) ==
    IF soln.has_timeblocks THEN soln.n_timeblocks ELSE soln.solutions_shape[1]

\* the flag of the reference tile read from the metafits alone
RefTileFlaggedInMetafits(tiles, soln, k) == tiles[k].flag

\* lines 642-662: the flag of row k of the tile table or-ed with the Flag
\* column of the solution file
RefTileFlagged(tiles, soln, k) == tiles[k].flag \/ soln.tile_flags[k]

\* lines 649-667: the exception of the reference tile checks, "none" when
\* the tile passes them or no reference tile is asked for
RefTileCheck(tiles, soln, refant_name) ==
    LET ref_tiles == {k \in DOMAIN tiles : tiles[k].name = refant_name}
    IN  IF refant_name = None THEN "none"
        ELSE IF ref_tiles = {}
        THEN "RuntimeError: reference tile not found in solution file"
        ELSE IF Cardinality(ref_tiles) > 1
        THEN "RuntimeError: more than one tile with the reference name"
        ELSE IF RefTileFlagged(tiles, soln, CHOOSE k \in ref_tiles : TRUE)
        THEN "RuntimeError: reference tile is flagged in solutions file"
        ELSE "none"

\* lines 635-737: the loop over the solutions, from solution i on, the checks
\* in the order of the code; n_all is len(all_avg_times)
RECURSIVE GetSolnsLoop(_, _, _, _, _, _)
GetSolnsLoop(tiles, all_hz, sols, refant_name, i, n_all) ==
    IF i > Len(sols)
    THEN [raised |-> "none", soln_tile_ids |-> Column(tiles, "id"),
          n_avg_times |-> n_all]
    ELSE
    LET soln == sols[i]
        ref_tiles == {k \in DOMAIN tiles : tiles[k].name = refant_name}
    IN  IF Len(soln.tile_flags) # Len(tiles)
        THEN NoSolns("ValueError: Length of values does not match length of index")
        ELSE IF RefTileCheck(tiles, soln, refant_name) # "none"
        THEN NoSolns(RefTileCheck(tiles, soln, refant_name))
        ELSE IF i > 1 /\ n_all # AvgTimesLen(soln)
        THEN NoSolns("RuntimeError: number of timeblocks does not match previous")
        ELSE IF refant_name # None
                /\ (CHOOSE k \in ref_tiles : TRUE) > soln.solutions_shape[2]
        THEN NoSolns("IndexError: index out of bounds")
        ELSE IF soln.solutions_shape[1] # AvgTimesLen(soln)
        THEN NoSolns("RuntimeError: SOLUTIONS timeblocks do not match TIMEBLOCKS")
        ELSE IF soln.solutions_shape[2] # Len(tiles)
        THEN NoSolns("RuntimeError: number of tiles in SOLUTIONS HDU does not match TILES HDU")
        ELSE IF soln.solutions_shape[3] # Len(all_hz[i])
        THEN NoSolns("RuntimeError: number of channels in SOLUTIONS HDU does not match CHANBLOCKS HDU")
        ELSE GetSolnsLoop(tiles, all_hz, sols, refant_name, i + 1,
                          IF i = 1 THEN AvgTimesLen(soln) ELSE n_all)

\* get_solns(refant_name), refant_name a tile name or None
get_solns(tiles, all_hz, sols, refant_name) ==
    IF Len(sols) = 0 THEN NoSolns("RuntimeError: No valid solutions found")
    ELSE GetSolnsLoop(tiles, all_hz, sols, refant_name, 1, 0)

-----------------------------------------------------------------------------
(* Inputs of the channel reconciliation *)

MaxCoarseChan == 3

ChannelCounts == {1, 2}

FineChanWidths == {1, 2}

NumFineChans == {2, 4}

MetafitsCounts == {1, 2, 3}

\* the CHANNELS header: coarse channel numbers in any order
ChannelLists == UNION {[1..k -> 1..MaxCoarseChan] : k \in ChannelCounts}

NoTiles == {}

ChanHeaders ==
    [coarse_chans : ChannelLists, fine_chan_width_hz : FineChanWidths,
     obs_num_fine_chans : NumFineChans, tiles : {NoTiles}]

InitChanInfo ==
    /\ metafits \in UNION {[1..n -> ChanHeaders] : n \in MetafitsCounts}
    /\ solns = <<>>
    /\ pc = "start"
    /\ err = "none"
    /\ NoGroupYet
    /\ NoUnitCall
    /\ NoMainYet
    /\ NoFitCall

CallGetMetafitsChanInfo ==
    /\ pc = "start"
    /\ LET r == get_metafits_chan_info(metafits)
       IN  /\ err' = r.raised
           /\ metafits_chan_info' = r.value
    /\ pc' = "done"
    /\ UNCHANGED <<unitVars, inputVars, metafits_tiles_df, chanblocks_per_coarse,
                   all_chanblocks_hz, fitVars, mainVars>>

SpecChanInfo == InitChanInfo /\ [][CallGetMetafitsChanInfo]_vars

-----------------------------------------------------------------------------
(* Claims about get_metafits_chan_info, checked under SpecChanInfo *)

SourcesReadable == \A i \in DOMAIN metafits : chan_info(metafits[i]).raised = "none"

\* every (source, range) pair the metadata sources report
SourceRangeIds ==
    {p \in UNION {{i} \X (1..Len(metafits[i].coarse_chans)) : i \in DOMAIN metafits} :
        p[2] <= Len(chan_info(metafits[p[1]]).coarse_chan_ranges)}

SourceRange(p) == chan_info(metafits[p[1]]).coarse_chan_ranges[p[2]]

SomeRangesShareIndex ==
    \E p, q \in SourceRangeIds :
        p # q /\ Range(SourceRange(p)) \cap Range(SourceRange(q)) # {}

SourcesAgree ==
    \A i, j \in DOMAIN metafits :
        /\ chan_info(metafits[i]).fine_chans_per_coarse =
               chan_info(metafits[j]).fine_chans_per_coarse
        /\ chan_info(metafits[i]).fine_chan_width_hz =
               chan_info(metafits[j]).fine_chan_width_hz

\* C6: get_metafits_chan_info raises whenever two of the coarse channel ranges
\* the sources report share a coarse channel index; it returns whenever the
\* ranges are pairwise disjoint (the sources being readable and agreeing on
\* the fine channel layout); the ranges it returns are the sources' ranges,
\* sorted by first index and pairwise disjoint.
C6_OverlapRaises ==
    pc = "done" =>
        /\ (SourcesReadable /\ SomeRangesShareIndex) => err # "none"
        /\ (SourcesReadable /\ SourcesAgree /\ ~SomeRangesShareIndex) => err = "none"
        /\ err = "none" =>
            LET out == metafits_chan_info.coarse_chan_ranges
            IN  /\ Len(out) = Cardinality(SourceRangeIds)
                /\ Range(out) = {SourceRange(p) : p \in SourceRangeIds}
                /\ \A k \in 1..(Len(out) - 1) : out[k][1] < out[k + 1][1]
                /\ \A a, b \in DOMAIN out :
                       a # b => Range(out[a]) \cap Range(out[b]) = {}

\* three sources, and the only shared index is between ranges of two
\* different sources, one of them longer than one channel
C6_Witness ==
    /\ pc = "done"
    /\ Len(metafits) = 3
    /\ SourcesReadable /\ SourcesAgree
    /\ SomeRangesShareIndex
    /\ \E p \in SourceRangeIds : Len(SourceRange(p)) = 2
    /\ err = "RuntimeError: coarse channel ranges overlap"

\* C7: get_metafits_chan_info raises if two sources differ in
\* fine_chans_per_coarse or fine_chan_width_hz; when it returns, every source
\* reports the values the returned ChanInfo carries.
C7_FineChanAgreement ==
    pc = "done" =>
        /\ ~SourcesAgree => err # "none"
        /\ err = "none" =>
            \A i \in DOMAIN metafits :
                /\ chan_info(metafits[i]).fine_chans_per_coarse =
                       metafits_chan_info.fine_chans_per_coarse
                /\ chan_info(metafits[i]).fine_chan_width_hz =
                       metafits_chan_info.fine_chan_width_hz

\* the third source alone differs, and only in its fine channel width
C7_Witness ==
    /\ pc = "done"
    /\ Len(metafits) = 3
    /\ SourcesReadable
    /\ chan_info(metafits[1]).fine_chans_per_coarse =
           chan_info(metafits[3]).fine_chans_per_coarse
    /\ chan_info(metafits[1]).fine_chan_width_hz #
           chan_info(metafits[3]).fine_chan_width_hz
    /\ chan_info(metafits[1]) = chan_info(metafits[2])
    /\ err = "RuntimeError: fine channel width mismatch"

-----------------------------------------------------------------------------
(* Inputs of the tile reconciliation *)

MaxTiles == 2

TileNames == <<"Tile011", "Tile012", "Tile013", "Tile014">>

TileMetafitsCounts == {1, 2}

\* the tile the array has at position i
BaseTile(i) == [name |-> TileNames[i], id |-> i, flag |-> FALSE, rx |-> 1,
                slot |-> i, flavor |-> "RG6_90"]

\* that tile as another file may report it: one field changed
TileVariants(i) ==
    {BaseTile(i),
     [BaseTile(i) EXCEPT !.flag = TRUE],
     [BaseTile(i) EXCEPT !.name = "Renamed"],
     [BaseTile(i) EXCEPT !.id = i + 10],
     [BaseTile(i) EXCEPT !.rx = 2],
     [BaseTile(i) EXCEPT !.slot = i + 1],
     [BaseTile(i) EXCEPT !.flavor = "RG6_90-NI"]}

\* the TILEDATA tiles of one file: a tile for each of the first n positions
TileSets ==
    UNION {{Range(g) : g \in {h \in [1..n -> UNION {TileVariants(i) : i \in 1..n}] :
                                  \A i \in 1..n : h[i] \in TileVariants(i)}}
           : n \in 1..MaxTiles}

TileHeaders ==
    [coarse_chans : {<<1>>}, fine_chan_width_hz : {1},
     obs_num_fine_chans : {2}, tiles : TileSets]

InitTiles ==
    /\ metafits \in UNION {[1..n -> TileHeaders] : n \in TileMetafitsCounts}
    /\ solns = <<>>
    /\ pc = "start"
    /\ err = "none"
    /\ NoGroupYet
    /\ NoUnitCall
    /\ NoMainYet
    /\ NoFitCall

CallGetMetafitsTilesDf ==
    /\ pc = "start"
    /\ LET r == get_metafits_tiles_df(metafits)
       IN  /\ err' = r.raised
           /\ metafits_tiles_df' = r.value
    /\ pc' = "done"
    /\ UNCHANGED <<unitVars, inputVars, metafits_chan_info, chanblocks_per_coarse,
                   all_chanblocks_hz, fitVars, mainVars>>

SpecTiles == InitTiles /\ [][CallGetMetafitsTilesDf]_vars

-----------------------------------------------------------------------------
(* Claims about get_metafits_tiles_df, checked under SpecTiles *)

\* a tile table without its flags
Unflagged(df) ==
    [k \in DOMAIN df |-> [name |-> df[k].name, id |-> df[k].id, rx |-> df[k].rx,
                          slot |-> df[k].slot, flavor |-> df[k].flavor]]

SourcesDifferOnlyInFlags ==
    \A i, j \in DOMAIN metafits :
        Unflagged(tiles_df(metafits[i])) = Unflagged(tiles_df(metafits[j]))

\* C8: get_metafits_tiles_df raises if two sources differ in a tile's id,
\* name, rx, slot or flavor, or in the number or order of tiles, and returns
\* when they differ in flags only.
C8_TilesMustMatch ==
    pc = "done" => (err = "none" <=> SourcesDifferOnlyInFlags)

\* two sources with two tiles each, the same but for one flag: no error
C8_Witness ==
    /\ pc = "done"
    /\ Len(metafits) = 2
    /\ Len(tiles_df(metafits[1])) = 2
    /\ SourcesDifferOnlyInFlags
    /\ tiles_df(metafits[1]) # tiles_df(metafits[2])
    /\ err = "none"

\* C9: in the reconciled tile table a tile is flagged if and only if it is
\* flagged in at least one of the metadata sources.
C9_FlagsUnioned ==
    (pc = "done" /\ err = "none") =>
        \A k \in DOMAIN metafits_tiles_df :
            metafits_tiles_df[k].flag <=>
                \E i \in DOMAIN metafits : tiles_df(metafits[i])[k].flag

-----------------------------------------------------------------------------
(* Inputs of the construction of a solution group *)

MaxHz == 5

MaxChanblocks == 3

ArrayTiles == {BaseTile(1), BaseTile(2)}

Header(coarse_chans, fine_chan_width_hz, obs_num_fine_chans) ==
    [coarse_chans |-> coarse_chans, fine_chan_width_hz |-> fine_chan_width_hz,
     obs_num_fine_chans |-> obs_num_fine_chans, tiles |-> ArrayTiles]

\* one file of three coarse channels of two fine channels; the same band in
\* two files; two coarse channels of one 2 Hz fine channel; one coarse
\* channel of four fine channels; coarse channels 0 and 2 of three fine
\* channels
GroupMetafits ==
    {<<Header(<<0, 1, 2>>, 1, 6)>>,
     <<Header(<<0>>, 1, 2), Header(<<2, 1>>, 1, 4)>>,
     <<Header(<<0, 1>>, 2, 2)>>,
     <<Header(<<0>>, 1, 4)>>,
     <<Header(<<0, 2>>, 1, 6)>>}

\* a CHANBLOCKS Freq column of any content
FreqColumns == UNION {[1..n -> 0..MaxHz] : n \in 0..MaxChanblocks}

\* a CHANBLOCKS Freq column of evenly spaced ascending frequencies
EvenFreqColumns ==
    {[k \in 1..n |-> start + (k - 1) * step] :
        start \in 0..MaxHz, step \in 1..MaxHz, n \in 2..(MaxChanblocks + 1)}
    \cap UNION {[1..n -> 0..MaxHz] : n \in 2..(MaxChanblocks + 1)}

\* the Freq column of eight chanblocks of 1 Hz from 0 Hz on
WideFreqColumn == <<0, 1, 2, 3, 4, 5, 6, 7>>

\* a file of one timeblock whose tables agree with its Freq column
SolnFile(freqs) ==
    [chanblocks_hz |-> freqs, tile_flags |-> <<FALSE, FALSE>>,
     has_timeblocks |-> TRUE, n_timeblocks |-> 1, results_len |-> Len(freqs),
     solutions_shape |-> <<1, 2, Len(freqs)>>]

InitGroup ==
    /\ metafits \in GroupMetafits
    /\ \E a \in FreqColumns \cup EvenFreqColumns \cup {WideFreqColumn},
          b \in EvenFreqColumns :
           solns \in {<<>>, <<SolnFile(a)>>, <<SolnFile(a), SolnFile(b)>>,
                      <<SolnFile(b), SolnFile(a)>>}
    /\ pc = "start"
    /\ err = "none"
    /\ NoGroupYet
    /\ NoUnitCall
    /\ NoMainYet
    /\ NoFitCall

NewHyperfitsSolutionGroup ==
    /\ pc = "start"
    /\ LET g == HyperfitsSolutionGroup(metafits, solns)
       IN  /\ err' = g.raised
           /\ metafits_tiles_df' = g.metafits_tiles_df
           /\ metafits_chan_info' = g.metafits_chan_info
           /\ chanblocks_per_coarse' = g.chanblocks_per_coarse
           /\ all_chanblocks_hz' = g.all_chanblocks_hz
           /\ pc' = IF g.raised = "none" THEN "constructed" ELSE "raised"
    /\ UNCHANGED <<unitVars, inputVars, fitVars, mainVars>>

SpecGroup == InitGroup /\ [][NewHyperfitsSolutionGroup]_vars

-----------------------------------------------------------------------------
(* Claims about the construction, checked under SpecGroup *)

EvenlySpacedAscending(freqs) ==
    /\ Len(freqs) >= 2
    /\ \A k \in 1..(Len(freqs) - 1) : freqs[k + 1] - freqs[k] >= 0
    /\ \A k \in 1..(Len(freqs) - 1) : freqs[k + 1] - freqs[k] = freqs[2] - freqs[1]

\* C10: a HyperfitsSolutionGroup is constructed only if the chanblocks_hz of
\* every solution file has at least 2 entries, is in ascending order and has a
\* constant spacing; a file without one of these makes the construction raise.
C10_ChanblocksValidated ==
    /\ pc = "constructed" =>
           \A i \in DOMAIN solns : EvenlySpacedAscending(solns[i].chanblocks_hz)
    /\ pc \in {"constructed", "raised"} =>
           ((\E i \in DOMAIN solns : ~EvenlySpacedAscending(solns[i].chanblocks_hz))
                => pc = "raised" /\ err # "none")

\* two files of three or more chanblocks each are accepted
C10_Witness ==
    /\ pc = "constructed"
    /\ Len(solns) = 2
    /\ \A i \in DOMAIN solns : Len(solns[i].chanblocks_hz) >= 3
    /\ all_chanblocks_hz = <<solns[1].chanblocks_hz, solns[2].chanblocks_hz>>

\* the reconciled channel info of the metafits files
ReconciledChanInfo == get_metafits_chan_info(metafits).value

\* the construction has come to the chanblock width of the first solution file
FirstWidthReached ==
    /\ pc \in {"constructed", "raised"}
    /\ Len(metafits) > 0
    /\ Len(solns) > 0
    /\ get_metafits_tiles_df(metafits).raised = "none"
    /\ get_metafits_chan_info(metafits).raised = "none"
    /\ chanblocks_hz(solns[1]).raised = "none"
    /\ Len(solns[1].chanblocks_hz) >= 2

\* chanblocks_hz[1] - chanblocks_hz[0] of solution file i
ChanblockWidth(i) == solns[i].chanblocks_hz[2] - solns[i].chanblocks_hz[1]

\* C11: a chanblock width that is not a multiple of the fine channel width
\* makes the construction raise the error of line 460, and a width that
\* passes that test gives chans_per_block >= 1.
C11_WidthMultipleOfFineChan ==
    FirstWidthReached =>
        /\ ChanblockWidth(1) % ReconciledChanInfo.fine_chan_width_hz # 0 =>
               /\ pc = "raised"
               /\ err = "RuntimeError: chanblock width is not a multiple of fine channel width"
        /\ ChanblockWidth(1) % ReconciledChanInfo.fine_chan_width_hz = 0 =>
               ChanblockWidth(1) \div ReconciledChanInfo.fine_chan_width_hz >= 1

\* the groups of chanblocks_per_coarse chanblocks each of a Freq column
CoarseSizedGroups(freqs) ==
    [k \in 1..(Len(freqs) \div chanblocks_per_coarse) |->
        SubSeq(freqs, (k - 1) * chanblocks_per_coarse + 1, k * chanblocks_per_coarse)]

\* the coarse channel index of group k of solution file i
GroupCoarseChan(i, k) ==
    coarse_chan_idx(CoarseSizedGroups(solns[i].chanblocks_hz)[k], ChanblockWidth(i),
                    metafits_chan_info.fine_chan_width_hz
                        * metafits_chan_info.fine_chans_per_coarse)

\* C12: in a constructed group, every coarse-channel-sized group of
\* chanblocks of a solution file maps to a coarse channel of the reconciled
\* metafits, and no two groups of a file map to the same coarse channel.
C12_GroupsClaimMetafitsCoarseChans ==
    pc = "constructed" =>
        \A i \in DOMAIN solns :
            \A k \in DOMAIN CoarseSizedGroups(solns[i].chanblocks_hz) :
                /\ GroupCoarseChan(i, k)
                       \in Range(Concat(metafits_chan_info.coarse_chan_ranges))
                /\ \A j \in 1..(k - 1) : GroupCoarseChan(i, j) # GroupCoarseChan(i, k)

\* lines 514-516: the condition of the printed warning, for the chanblocks
\* of a file whose groups were all claimed
range_ncoarse_differs(chanblocks_hz_, cpc, claimed) ==
    LET range_ncoarse == Len(claimed.soln_coarse_chans)
        soln_ncoarse == py_floordiv(Len(chanblocks_hz_), cpc)
    IN  range_ncoarse # soln_ncoarse

\* chanblocks_per_coarse as the first solution file gives it
FirstChanblocksPerCoarse ==
    py_floordiv(ReconciledChanInfo.fine_chans_per_coarse,
                ChanblockWidth(1) \div ReconciledChanInfo.fine_chan_width_hz)

\* the construction has come to the grouping of the chanblocks of the first
\* solution file
FirstGroupingReached ==
    /\ FirstWidthReached
    /\ ChanblockWidth(1) > 0
    /\ ChanblockWidth(1) % ReconciledChanInfo.fine_chan_width_hz = 0
    /\ FirstChanblocksPerCoarse >= 1

\* the number of coarse channels the first file is expected to span
ExpectedNCoarse == Len(solns[1].chanblocks_hz) \div FirstChanblocksPerCoarse

\* the number of coarse channels the chanblocks of the first file lie in
ObservedNCoarse ==
    Cardinality({coarse_chan_idx(<<solns[1].chanblocks_hz[k]>>, ChanblockWidth(1),
                                 ReconciledChanInfo.fine_chan_width_hz
                                     * ReconciledChanInfo.fine_chans_per_coarse) :
                    k \in DOMAIN solns[1].chanblocks_hz})

\* the warning of lines 517-522 is printed for the first file
FirstFileWarned ==
    LET hz == solns[1].chanblocks_hz
        sections == Len(hz) \div FirstChanblocksPerCoarse
        claimed == ClaimCoarseChans(
                       np_split(hz, sections), 1, ChanblockWidth(1),
                       ReconciledChanInfo.fine_chan_width_hz
                           * ReconciledChanInfo.fine_chans_per_coarse,
                       Range(Concat(ReconciledChanInfo.coarse_chan_ranges)), <<>>)
    IN  /\ sections > 0
        /\ Len(hz) % sections = 0
        /\ claimed.raised = "none"
        /\ range_ncoarse_differs(hz, FirstChanblocksPerCoarse, claimed)

\* C28: when the number of coarse channels a solution file is expected to
\* span, len(chanblocks_hz) // chanblocks_per_coarse, differs from the number
\* of coarse channels its chanblocks group into, the construction prints a
\* warning for the file and does not abort on the grouping.
C28_CoarseCountMismatchWarnsOnly ==
    /\ FirstGroupingReached
    /\ ExpectedNCoarse >= 1
    /\ ExpectedNCoarse # ObservedNCoarse
    =>
        /\ err # "ValueError: array split does not result in an equal division"
        /\ pc = "constructed" => FirstFileWarned

\* the warning of lines 517-522 is never printed
WarningNeverPrinted == FirstGroupingReached => ~FirstFileWarned

-----------------------------------------------------------------------------
(* fit_phase_line on its own, for arrays of any content *)

MaxFitChans == 3

FitNiters == {1, 11}

SolutionValues == {[finite |-> b, rotated |-> 0] : b \in BOOLEAN}

FitWeights == {[nan |-> FALSE, num |-> 0, den |-> 1], [nan |-> FALSE, num |-> 1, den |-> 1],
               [nan |-> TRUE, num |-> 0, den |-> 1]}

FitArgs ==
    UNION {[freqs_hz : [1..n -> 1..MaxFitChans], solution : [1..n -> SolutionValues],
            weights : [1..n -> FitWeights], niter : FitNiters, fit_iono : BOOLEAN]
           : n \in 0..MaxFitChans}

InitFit ==
    /\ metafits = <<>>
    /\ solns = <<>>
    /\ pc = "fit_call"
    /\ err = "none"
    /\ NoGroupYet
    /\ NoUnitCall
    /\ NoMainYet
    /\ fit_args \in FitArgs
    /\ fit = None

FitEntry ==
    /\ pc = "fit_call"
    /\ LET e == fit_phase_line_entry(fit_args)
       IN  /\ err' = e.raised
           /\ fit' = e.frame
           /\ pc' = IF e.raised = "none" THEN "fit_loop" ELSE "fit_raised"
    /\ UNCHANGED <<unitVars, inputVars, groupVars, mainVars, fit_args>>

FitRefine ==
    /\ pc = "fit_loop"
    /\ RefinementContinues(fit)
    /\ \E retained \in SUBSET (1..Len(fit.nu)) :
           fit' = refinement_pass(fit, retained)
    /\ UNCHANGED <<unitVars, inputVars, groupVars, mainVars, fit_args, pc, err>>

FitReturn ==
    /\ pc = "fit_loop"
    /\ ~RefinementContinues(fit)
    /\ fit' = [fit EXCEPT !.ret = fit_phase_line_return(fit)]
    /\ pc' = "fit_returned"
    /\ UNCHANGED <<unitVars, inputVars, groupVars, mainVars, fit_args, err>>

NextFit == FitEntry \/ FitRefine \/ FitReturn

SpecFit == InitFit /\ [][NextFit]_vars

-----------------------------------------------------------------------------
(* Claims about fit_phase_line, checked under SpecFit *)

\* the channels of the arrays passed in that are finite and of weight > 0
ValidInputChannels ==
    {k \in DOMAIN fit_args.freqs_hz :
        fit_args.solution[k].finite /\ ~fit_args.weights[k].nan
            /\ fit_args.weights[k].num > 0}

\* C3: for three equal-length arrays of any length in which fewer than 2
\* channels are finite with a weight > 0, fit_phase_line raises the 'Not enough
\* valid phases to fit' error and nothing else, and returns no PhaseFitInfo.
C3_NotEnoughValidRaises ==
    (pc # "fit_call" /\ Cardinality(ValidInputChannels) < 2) =>
        /\ pc = "fit_raised"
        /\ err = "RuntimeError: Not enough valid phases to fit"

\* C16: the quality fit_phase_line returns is the number of channels left by
\* the last trim over the number of channels passed in; it lies between 0
\* and 1, and it is 1 only when every channel passed in was valid and no
\* trim rejected a channel.
C16_QualityIsRetainedFraction ==
    pc = "fit_returned" =>
        /\ fit.ret.quality = <<Len(fit.mask), Len(fit_args.freqs_hz)>>
        /\ Len(fit.nu) = Len(fit.mask)
        /\ 0 <= fit.ret.quality[1]
        /\ fit.ret.quality[1] <= fit.ret.quality[2]
        /\ fit.ret.quality[2] > 0
        /\ fit.ret.quality[1] = fit.ret.quality[2] =>
               /\ Cardinality(ValidInputChannels) = Len(fit_args.freqs_hz)
               /\ Len(fit.nu) = Cardinality(ValidInputChannels)

\* of three channels one was invalid and one was rejected by a trim
C16_Witness ==
    /\ pc = "fit_returned"
    /\ Len(fit_args.freqs_hz) = 3
    /\ Cardinality(ValidInputChannels) = 2
    /\ fit.ret.quality = <<1, 3>>

\* the limit of the number of minimizations of the call
MinimizerLimit == IF fit_args.niter >= 10 THEN fit_args.niter ELSE 10

\* the steps the call has left at most: the minimizations up to the limit,
\* the entry and the return
StepsLeft ==
    IF pc = "fit_call" THEN MinimizerLimit + 2
    ELSE IF pc = "fit_loop" THEN MinimizerLimit - fit.iteration_count + 1
    ELSE 0

\* C25: the refinement loop of fit_phase_line terminates and runs the
\* minimizer at most max(niter, 10) times, for every input that passes the
\* check of 2 valid channels and for both settings of fit_iono: every step of
\* the call takes the number of steps left down and leaves it >= 0, and the
\* number of minimizations stays within the limit.
C25_RefinementBounded ==
    [][/\ StepsLeft' < StepsLeft
       /\ StepsLeft' >= 0
       /\ pc' \in {"fit_loop", "fit_returned"} =>
              fit'.iteration_count <= MinimizerLimit]_vars

\* a call with niter = 1 has returned after 10 minimizations that left 2
\* channels, with the ionospheric term and without
C25_Witness ==
    /\ pc = "fit_returned"
    /\ fit_args.niter = 1
    /\ fit.iteration_count = 10
    /\ Len(fit.mask) >= 2

\* C26: the refinement loop stops as soon as a pass drops no channel or fewer
\* than 2 channels remain: after a trimming pass that leaves the retained
\* channels unchanged the loop condition is false, and no minimization follows.
C26_StopsWhenNothingDropped ==
    [][(/\ pc = "fit_loop"
        /\ pc' = "fit_loop"
        /\ fit'.iteration_count = fit.iteration_count + 1
        /\ (Len(fit'.mask) = Len(fit.nu) \/ Len(fit'.mask) < 2))
       => ~RefinementContinues(fit')]_vars

\* the smallest difference > 0 of two frequencies of the call
MinPositiveDiff ==
    LET diffs == {fit_args.freqs_hz[j] - fit_args.freqs_hz[i] :
                     i, j \in DOMAIN fit_args.freqs_hz} \cap (1..MaxFitChans)
    IN  CHOOSE d \in diffs : \A e \in diffs : d <= e

\* C27: fit_phase_line takes as bin width the smallest difference > 0 of
\* consecutive sorted frequencies, so that the bin width is > 0 for every
\* input of at least two distinct frequencies, repeated frequencies included.
C27_BinWidthPositive ==
    pc # "fit_call" /\ Cardinality(Range(fit_args.freqs_hz)) >= 2 =>
        /\ err # "OverflowError: cannot convert float infinity to integer"
        /\ pc \in {"fit_loop", "fit_returned"} =>
               fit.dnu = MinPositiveDiff /\ fit.dnu > 0

-----------------------------------------------------------------------------
(* Inputs of a run of main *)

MaxTimeblocks == 2

\* the first tile flagged or not in the metafits; the second of a flavor
\* that takes the phase difference
MainTiles(flag) ==
    {[BaseTile(1) EXCEPT !.flag = flag], [BaseTile(2) EXCEPT !.flavor = "RG6_90-NI"]}

MainHeader(coarse_chans, obs_num_fine_chans, flag, obsid) ==
    [coarse_chans |-> coarse_chans, fine_chan_width_hz |-> 1,
     obs_num_fine_chans |-> obs_num_fine_chans, tiles |-> MainTiles(flag),
     obsid |-> obsid]

TimeLayouts == {"timeblocks", "no timeblocks", "one results row", "short solutions"}

\* a solution file of ntimes timeblocks
MainSoln(freqs, tile_flags, layout, ntimes) ==
    [chanblocks_hz |-> freqs, tile_flags |-> tile_flags,
     has_timeblocks |-> layout # "no timeblocks",
     n_timeblocks |-> IF layout = "no timeblocks" THEN 0 ELSE ntimes,
     results_len |-> IF layout = "one results row" THEN Len(freqs)
                     ELSE ntimes * Len(freqs),
     solutions_shape |-> <<IF layout = "short solutions" THEN ntimes - 1 ELSE ntimes,
                           2, Len(freqs)>>]

SolnTileFlags == {<<FALSE, FALSE>>, <<TRUE, FALSE>>, <<TRUE, TRUE>>}

\* one file of three chanblocks, or two files of two chanblocks each
MainFiles ==
    {[metafits |-> <<MainHeader(<<0>>, 3, flag, obsid)>>,
      solns |-> <<MainSoln(<<0, 1, 2>>, tile_flags, layout, ntimes)>>] :
        flag \in BOOLEAN, obsid \in {0, 1}, tile_flags \in SolnTileFlags,
        layout \in TimeLayouts, ntimes \in 1..MaxTimeblocks}
    \cup
    {[metafits |-> <<MainHeader(<<0, 1>>, 4, FALSE, 1)>>,
      solns |-> <<MainSoln(<<0, 1>>, <<FALSE, FALSE>>, "timeblocks", ntimes),
                  MainSoln(<<2, 3>>, tile_flags, layout, ntimes)>>] :
        tile_flags \in SolnTileFlags, layout \in TimeLayouts,
        ntimes \in 1..MaxTimeblocks}

MainArgs ==
    {NoArgs, [max_timeblocks_given |-> TRUE, max_timeblocks |-> 1, fit_iono |-> FALSE]}

\* the values of a RESULTS row: NaN, negative, converged, above 1e-4
ResultValues == {NaN, Float(0 - 1), Float(0), Float(5), Float(RMax + 1)}

ResultValuesOfShortRows == {Float(0 - 1), Float(0), Float(5)}

\* a RESULTS row of n channels
ResultRow(n) ==
    IF n < 3 THEN [1..n -> ResultValuesOfShortRows] ELSE [1..n -> ResultValues]

\* the rows of the RESULTS of the files for one timeblock
RECURSIVE ResultRows(_)
ResultRows(sols) ==
    IF sols = <<>> THEN {<<>>}
    ELSE {<<row>> \o rows : row \in ResultRow(Len(Head(sols).chanblocks_hz)),
                            rows \in ResultRows(Tail(sols))}

-----------------------------------------------------------------------------
(* main: the per-timeblock loop, lines 1643-1770 *)

\* lines 1686-1708: the weights of the solutions from solution i on, rows[i]
\* the row of solution i's results for this timeblock
RECURSIVE WeightsLoop(_, _, _, _, _, _)
WeightsLoop(sols, all_hz, time_index, rows, i, weights_blocks) ==
    IF i > Len(sols) \/ i > Len(all_hz)
    THEN [raised |-> "none", weights_blocks |-> weights_blocks]
    ELSE LET per_time_results == results_per_time(sols[i])
             w == timeblock_weights(rows[i])
         IN  IF per_time_results.raised # "none"
             THEN [raised |-> per_time_results.raised, weights_blocks |-> <<>>]
             ELSE IF time_index >= per_time_results.rows
             THEN [raised |-> "RuntimeError: missing results for time index",
                   weights_blocks |-> <<>>]
             ELSE IF Len(w) # Len(all_hz[i])
             THEN [raised |-> "RuntimeError: weights length != channels",
                   weights_blocks |-> <<>>]
             ELSE WeightsLoop(sols, all_hz, time_index, rows, i + 1,
                              Append(weights_blocks, w))

\* what fit_phase_line raises
FitErrors ==
    {"ValueError: zero-size array to reduction operation minimum",
     "RuntimeError: Not enough valid phases to fit",
     "OverflowError: cannot convert float infinity to integer"}

\* a handler for ValueError only
except_ValueError(raised) ==
    raised = "ValueError: zero-size array to reduction operation minimum"

\* line 1741: except Exception catches whatever fit_phase_line raises
except_Exception(raised) == raised \in FitErrors

\* line 1730: tile.flavor.endswith("-NI")
endswith_NI(flavor) == flavor \in {"RG6_90-NI"}

\* line 1731: solns *= phase_diff, phase_diff finite
TimesPhaseDiff(values) ==
    [k \in DOMAIN values |-> [values[k] EXCEPT !.rotated = @ + 1]]

\* an ndarray a local name is bound to: aliased says whether an in-place
\* operation on the name writes to the array of the caller
\* lines 1725-1729: iterating over an array gives views of its rows
basic_slice(a) == [aliased |-> TRUE, value |-> a]

\* indexing that gives the array indexed and no new one
index_in_place(a) == [aliased |-> TRUE, value |-> a]

\* lines 851-853, 868-870: indexing with an integer array gives a new array
fancy_index(a) == [aliased |-> FALSE, value |-> a]

\* lines 850-874: the arguments of fit_phase_line that its in-place operations
\* write to.  The names are rebound at lines 851-853 and, when at least two
\* channels are valid, at lines 868-870; solution is divided and multiplied
\* in place at lines 873-874.
fit_phase_line_writes(a) ==
    LET ind == np_argsort(a.freqs_hz)
        freqs_hz == fancy_index(Take(a.freqs_hz, ind))
        solution == fancy_index(Take(a.solution, ind))
        weights == fancy_index(Take(a.weights, ind))
        mask == ValidChannels(solution.value, weights.value)
    IN  IF Len(a.freqs_hz) < 2 \/ Len(mask) < 2
        THEN {}
        ELSE LET solution_ == fancy_index(Take(solution.value, mask))
             IN  IF solution_.aliased THEN {"solution"} ELSE {}

\* an in-place write to an array of main: the array, the slice of it and the
\* statement that wrote
InPlaceWrite(array, m, by) ==
    [array |-> array, time_index |-> m.time_index, soln_idx |-> m.soln_idx,
     by |-> by]

\* lines 1729-1739: the in-place writes of one tile x polarization to the
\* arrays of main; solns is a view of all_xx_solns or all_yy_solns
InPlaceWrites(m, tile, a) ==
    LET solns_ == basic_slice(a.solution)
        written == fit_phase_line_writes(a)
    IN  (IF endswith_NI(tile.flavor) /\ solns_.aliased
         THEN <<InPlaceWrite(m.pol, m, "phase_diff")>> ELSE <<>>)
        \o (IF "solution" \in written /\ solns_.aliased
            THEN <<InPlaceWrite(m.pol, m, "fit_phase_line")>> ELSE <<>>)
        \o (IF "freqs_hz" \in written
            THEN <<InPlaceWrite("chanblocks_hz", m, "fit_phase_line")>> ELSE <<>>)
        \o (IF "weights" \in written
            THEN <<InPlaceWrite("weights_1d", m, "fit_phase_line")>> ELSE <<>>)

\* line 1728: tiles[tiles.id == tile_id].iloc[0]
TileOfId(tiles, tile_id) ==
    tiles[CHOOSE k \in DOMAIN tiles :
              /\ tiles[k].id = tile_id
              /\ \A j \in DOMAIN tiles : tiles[j].id = tile_id => k <= j]

\* lines 1655-1657: the GPSTIME of the metafits files that have one
obsids(mf) == {mf[i].obsid : i \in DOMAIN mf} \ {0}

\* lines 1654-1677: the title, the reference antenna and the solutions
SelectReference ==
    /\ pc = "constructed"
    /\ LET ra == refant(metafits_tiles_df, solns)
           gs == get_solns(metafits_tiles_df, all_chanblocks_hz, solns,
                           ra.tile.name)
           raised ==
               IF obsids(metafits) = {}
               THEN "ValueError: zero-size array to reduction operation minimum"
               ELSE IF ra.raised # "none" THEN ra.raised
               ELSE gs.raised
       IN  /\ err' = raised
           /\ pc' = IF raised = "none" THEN "timeblock" ELSE "raised"
           /\ main' = IF raised = "none"
                      THEN [NoLocals EXCEPT !.refant_name = ra.tile.name,
                                            !.soln_tile_ids = gs.soln_tile_ids,
                                            !.n_avg_times = gs.n_avg_times]
                      ELSE main
    /\ UNCHANGED <<unitVars, inputVars, groupVars, fitVars, fit_calls>>

\* lines 1680-1682: the timeblocks are exhausted or max_timeblocks is reached
LoopEnds ==
    \/ main.time_index >= main.n_avg_times
    \/ args.max_timeblocks_given /\ main.time_index >= args.max_timeblocks

FinishRun ==
    /\ pc = "timeblock"
    /\ LoopEnds
    /\ pc' = "done"
    /\ UNCHANGED <<unitVars, inputVars, groupVars, fitVars, mainVars, err>>

\* lines 1683-1722: the weights of the timeblock
BuildWeights ==
    /\ pc = "timeblock"
    /\ ~LoopEnds
    /\ \E rows \in ResultRows(solns) :
           LET b == WeightsLoop(solns, all_chanblocks_hz, main.time_index,
                                rows, 1, <<>>)
           IN  /\ err' = b.raised
               /\ pc' = IF b.raised # "none" THEN "raised"
                        ELSE IF Len(main.soln_tile_ids) = 0 THEN "end_timeblock"
                        ELSE "fit"
               /\ main' = IF b.raised # "none"
                          THEN [main EXCEPT !.phase_fits_rows = <<>>]
                          ELSE [main EXCEPT !.phase_fits_rows = <<>>,
                                            !.per_time_results = rows,
                                            !.weights_blocks = b.weights_blocks,
                                            !.weights_1d = Concat(b.weights_blocks),
                                            !.soln_idx = 0,
                                            !.pol = "XX"]
    /\ UNCHANGED <<unitVars, inputVars, groupVars, fitVars, fit_calls>>

\* the position of the tile loop after this tile x polarization
Advance(m) ==
    IF m.pol = "XX" THEN [m EXCEPT !.pol = "YY"]
    ELSE [m EXCEPT !.soln_idx = @ + 1, !.pol = "XX"]

\* lines 1725-1744: one tile x polarization; values is the slice of the
\* solutions of this time, tile and polarization
FitTilePol ==
    /\ pc = "fit"
    /\ \E values \in [1..Len(Concat(all_chanblocks_hz)) -> SolutionValues] :
           LET tile_id == main.soln_tile_ids[main.soln_idx + 1]
               tile == TileOfId(metafits_tiles_df, tile_id)
               solns_ == IF endswith_NI(tile.flavor) THEN TimesPhaseDiff(values)
                         ELSE values
               a == [freqs_hz |-> Concat(all_chanblocks_hz), solution |-> solns_,
                     weights |-> main.weights_1d, niter |-> 1,
                     fit_iono |-> args.fit_iono]
               e == fit_phase_line_entry(a)
               row == [tile_id |-> tile_id, soln_idx |-> main.soln_idx,
                       pol |-> main.pol, fit |-> "PhaseFitInfo"]
               next == [Advance(main) EXCEPT
                           !.inplace = @ \o InPlaceWrites(main, tile, a)]
           IN  /\ fit_calls' = [n |-> fit_calls.n + 1,
                                failed |-> fit_calls.failed \/ e.raised # "none"]
               /\ IF e.raised # "none" /\ ~except_Exception(e.raised)
                  THEN /\ pc' = "raised"
                       /\ err' = e.raised
                       /\ main' = main
                  ELSE /\ pc' = IF next.soln_idx >= Len(main.soln_tile_ids)
                                THEN "end_timeblock" ELSE "fit"
                       /\ err' = err
                       /\ main' = IF e.raised # "none" THEN next
                                  ELSE [next EXCEPT !.phase_fits_rows = Append(@, row)]
    /\ UNCHANGED <<unitVars, inputVars, groupVars, fitVars>>

\* lines 1746-1770: the table of the timeblock and its outputs, which change
\* nothing the loop reads; the locals of the iteration are defined anew by
\* the next one
EndTimeblock ==
    /\ pc = "end_timeblock"
    /\ main' = [main EXCEPT !.time_index = @ + 1,
                            !.per_time_results = <<>>,
                            !.weights_blocks = <<>>,
                            !.weights_1d = <<>>,
                            !.phase_fits_rows = <<>>,
                            !.soln_idx = 0,
                            !.pol = None]
    /\ pc' = "timeblock"
    /\ UNCHANGED <<unitVars, inputVars, groupVars, fitVars, fit_calls, err>>

-----------------------------------------------------------------------------
(* The run of main *)

Init ==
    /\ \E f \in MainFiles :
           /\ metafits = f.metafits
           /\ solns = f.solns
    /\ args \in MainArgs
    /\ pc = "start"
    /\ err = "none"
    /\ NoGroupYet
    /\ NoUnitCall
    /\ main = NoLocals
    /\ fit_calls = NoFitCalls
    /\ NoFitCall

Next ==
    \/ NewHyperfitsSolutionGroup
    \/ SelectReference
    \/ FinishRun
    \/ BuildWeights
    \/ FitTilePol
    \/ EndTimeblock

Spec == Init /\ [][Next]_vars


-----------------------------------------------------------------------------
(* Claims about the run of main *)

\* the fits of one timeblock: two polarizations for every tile
FitCallsOfTimeblock == 2 * Len(main.soln_tile_ids)

\* the fits the tile loop has behind it in this timeblock
FitCallsBehind == 2 * main.soln_idx + (IF main.pol = "YY" THEN 1 ELSE 0)

\* C1: a fit that raises is caught in the tile loop, which goes on with the
\* next tile x polarization: at every place of the loop the number of fits
\* called is the number of tile x polarizations the loop has passed, in this
\* and the earlier timeblocks, and no run ends by an exception in the middle
\* of a timeblock's fits.
C1_FitFailureNeverTerminates ==
    /\ pc = "fit" =>
           fit_calls.n = main.time_index * FitCallsOfTimeblock + FitCallsBehind
    /\ pc = "end_timeblock" =>
           fit_calls.n = (main.time_index + 1) * FitCallsOfTimeblock
    /\ pc \in {"timeblock", "done"} =>
           fit_calls.n = main.time_index * FitCallsOfTimeblock
    /\ pc = "done" => LoopEnds
    /\ pc = "raised" /\ fit_calls.n > 0 =>
           fit_calls.n = main.time_index * FitCallsOfTimeblock

\* a fit of the first timeblock has raised, every fit of that timeblock was
\* called and the loop is at the first fit of the second timeblock
C1_Witness ==
    /\ pc = "fit"
    /\ main.time_index = 1
    /\ FitCallsBehind = 0
    /\ fit_calls.failed
    /\ fit_calls.n = FitCallsOfTimeblock

\* the rows of the timeblock for a tile and a polarization
RowsOf(tile_id, pol) ==
    {j \in DOMAIN main.phase_fits_rows :
        /\ main.phase_fits_rows[j].tile_id = tile_id
        /\ main.phase_fits_rows[j].pol = pol}

\* C2: when the tile loop of a timeblock is over, the rows of the timeblock
\* hold exactly one row for every tile and polarization, a fit or the NaN
\* PhaseFitInfo of a fit that raised.
C2_OneRowPerTilePol ==
    pc = "end_timeblock" =>
        \A k \in DOMAIN main.soln_tile_ids, pol \in {"XX", "YY"} :
            Cardinality(RowsOf(main.soln_tile_ids[k], pol)) = 1

\* a result the weights leave out
InvalidResult(x) == x.nan \/ x.v < 0 \/ x.v > RMax

\* a weight of exactly 1.0
IsOne(w) == ~w.nan /\ w.num = w.den

\* a weight of exactly 0.0
IsZero(w) == ~w.nan /\ w.num = 0

\* the weights of the timeblock are built
WeightsBuilt == pc \in {"fit", "end_timeblock"}

\* C4: a solution whose results row of the timeblock holds only invalid
\* values gets a weight vector of ones, as long as its channels.
C4_AllInvalidGivesOnes ==
    WeightsBuilt =>
        \A i \in DOMAIN main.per_time_results :
            (\A k \in DOMAIN main.per_time_results[i] :
                 InvalidResult(main.per_time_results[i][k]))
            => /\ Len(main.weights_blocks[i]) = Len(all_chanblocks_hz[i])
               /\ \A k \in DOMAIN main.weights_blocks[i] :
                      IsOne(main.weights_blocks[i][k])

\* the distinct valid values of a results row
ValidResults(row) ==
    {row[k].v : k \in {j \in DOMAIN row : ~InvalidResult(row[j])}}

\* C5: every weight the fits get is finite and between 0 and 1; a channel whose
\* result is below 0 or above 1e-4 has weight 0 when its row holds two
\* distinct valid values; there are as many weights as chanblocks in all the
\* solution files.
C5_WeightsNormalised ==
    WeightsBuilt =>
        /\ \A k \in DOMAIN main.weights_1d :
               LET w == main.weights_1d[k]
               IN  ~w.nan /\ w.den > 0 /\ 0 <= w.num /\ w.num <= w.den
        /\ \A i \in DOMAIN main.per_time_results :
               \A k \in DOMAIN main.per_time_results[i] :
                   LET r == main.per_time_results[i][k]
                   IN  /\ ~r.nan
                       /\ r.v < 0 \/ r.v > RMax
                       /\ Cardinality(ValidResults(main.per_time_results[i])) >= 2
                       => IsZero(main.weights_blocks[i][k])
        /\ Len(main.weights_1d) = Len(Concat(all_chanblocks_hz))

\* a row with a negative result and two distinct valid
\* ones has its weights
C5_Witness ==
    /\ WeightsBuilt
    /\ \E i \in DOMAIN main.per_time_results :
           /\ \E k \in DOMAIN main.per_time_results[i] :
                  ~main.per_time_results[i][k].nan /\ main.per_time_results[i][k].v < 0
           /\ Cardinality(ValidResults(main.per_time_results[i])) >= 2
           /\ \E k \in DOMAIN main.weights_blocks[i] :
                  IsOne(main.weights_blocks[i][k])


\* C15: a run that ends with an exception has called fit_phase_line for no
\* tile: every validation error of the files is raised before the first fit.
C15_ValidationBeforeFits ==
    pc = "raised" => fit_calls.n = 0

\* main is past get_solns
SolutionsCollected == pc \in {"timeblock", "fit", "end_timeblock", "done"}

\* C21: a solution file without a TIMEBLOCKS table counts as one timeblock:
\* results_per_time returns a single row for it and get_solns reports a
\* single average time.
C21_NoTimeblocksIsOneTimeblock ==
    SolutionsCollected =>
        \A i \in DOMAIN solns :
            ~solns[i].has_timeblocks =>
                /\ main.n_avg_times = 1
                /\ results_per_time(solns[i]).raised = "none"
                       => results_per_time(solns[i]).rows = 1

\* the slices of all_xx_solns and all_yy_solns: a time, a row and a
\* polarization
SolutionSlices ==
    (0..(main.n_avg_times - 1)) \X (0..(Len(main.soln_tile_ids) - 1))
        \X {"XX", "YY"}

\* the loop of lines 1725-1744 has been through the slice
SliceFitted(s) ==
    \/ s[1] < main.time_index
    \/ /\ s[1] = main.time_index
       /\ \/ s[2] < main.soln_idx
          \/ s[2] = main.soln_idx /\ s[3] = "XX" /\ main.pol = "YY"

\* the in-place writes made so far to the slice
WritesTo(s) ==
    {k \in DOMAIN main.inplace :
        /\ main.inplace[k].time_index = s[1]
        /\ main.inplace[k].soln_idx = s[2]
        /\ main.inplace[k].array = s[3]}

\* the tile of the row of the slice has a flavor ending in -NI
SliceOfNI(s) ==
    endswith_NI(TileOfId(metafits_tiles_df, main.soln_tile_ids[s[2] + 1]).flavor)

\* C29: in a run of main no call of fit_phase_line writes to the frequency,
\* solution or weight array it is given, and the only in-place writes to the
\* arrays of the loop are the phase-difference rotations: one for each slice
\* (time, tile, polarization) of a -NI tile that has been fitted, made while
\* that slice was the one being fitted, and none for any other slice.
C29_FitsIndependent ==
    SolutionsCollected =>
        /\ \A k \in DOMAIN main.inplace :
               /\ main.inplace[k].by = "phase_diff"
               /\ main.inplace[k].array \in {"XX", "YY"}
        /\ \A s \in SolutionSlices :
               Cardinality(WritesTo(s)) =
                   IF SliceFitted(s) /\ SliceOfNI(s) THEN 1 ELSE 0
        /\ Len(main.inplace) =
               Cardinality({s \in SolutionSlices : SliceFitted(s) /\ SliceOfNI(s)})

\* both polarizations of a -NI tile have been rotated and fitted, and a tile
\* of another flavor has been fitted too
C29_Witness ==
    /\ pc = "done"
    /\ Len(main.inplace) >= 2
    /\ \E s \in SolutionSlices : SliceFitted(s) /\ ~SliceOfNI(s)
    /\ ~fit_calls.failed

\* the rows of the tile table flagged neither in the metafits nor in the
\* Flag column of any solution file
UnflaggedEverywhere ==
    {k \in DOMAIN metafits_tiles_df :
        /\ ~metafits_tiles_df[k].flag
        /\ \A i \in DOMAIN solns : ~solns[i].tile_flags[k]}

\* no two rows of the tile table have the same name
TileNamesUnique ==
    \A j, k \in DOMAIN metafits_tiles_df :
        metafits_tiles_df[j].name = metafits_tiles_df[k].name => j = k

\* C30: when main asks a constructed group for its reference tile and then
\* for the solutions relative to it, the tile names being unique: the tile
\* taken is the one of lowest id among the tiles flagged neither in the
\* metafits nor in any solution file, ValueError "No unflagged tiles found"
\* is raised when there is none, and get_solns does not raise "reference
\* tile is flagged in solutions file".
C30_RefantLowestUnflagged ==
    [][pc = "constructed" /\ TileNamesUnique =>
           /\ err' # "RuntimeError: reference tile is flagged in solutions file"
           /\ obsids(metafits) # {} /\ UnflaggedEverywhere = {} =>
                  err' = "ValueError: No unflagged tiles found"
           /\ pc' # "raised" =>
                  \E k \in UnflaggedEverywhere :
                      /\ main'.refant_name = metafits_tiles_df[k].name
                      /\ \A j \in UnflaggedEverywhere :
                             metafits_tiles_df[k].id <= metafits_tiles_df[j].id]_vars

\* the first tile is flagged in the second solution file only, and the
\* second tile has been taken as the reference
C30_Witness ==
    /\ pc = "timeblock"
    /\ main.refant_name = TileNames[2]
    /\ Len(solns) = 2
    /\ ~metafits_tiles_df[1].flag
    /\ ~solns[1].tile_flags[1]
    /\ solns[2].tile_flags[1]

-----------------------------------------------------------------------------
(* get_solns on its own, for any reference tile name *)

\* two tiles, flagged or not in the metafits, the second perhaps with the
\* name of the first
RefTileSets ==
    {{[BaseTile(1) EXCEPT !.flag = f1], [BaseTile(2) EXCEPT !.flag = f2, !.name = name]} :
        f1 \in BOOLEAN, f2 \in BOOLEAN, name \in {TileNames[1], TileNames[2]}}

\* the Flag column of TILES, of the right length or too short
TileFlagColumns == [1..2 -> BOOLEAN] \cup {<<FALSE>>}

\* a solution file of ntimes timeblocks with ntiles tiles in SOLUTIONS
RefSoln(freqs, tile_flags, layout, ntimes, ntiles) ==
    [MainSoln(freqs, tile_flags, layout, ntimes) EXCEPT !.solutions_shape[2] = ntiles]

RefSolns(freqs) ==
    {RefSoln(freqs, tile_flags, layout, ntimes, ntiles) :
        tile_flags \in TileFlagColumns, layout \in {"timeblocks", "short solutions"},
        ntimes \in 1..MaxTimeblocks, ntiles \in 1..2}

RefantNames == {None, TileNames[1], TileNames[2], "Absent"}

InitGetSolns ==
    /\ \E tiles \in RefTileSets :
           metafits = <<[MainHeader(<<0, 1>>, 4, FALSE, 1) EXCEPT !.tiles = tiles]>>
    /\ \E a \in RefSolns(<<0, 1>>), b \in RefSolns(<<2, 3>>) :
           solns \in {<<a>>, <<a, b>>}
    /\ pc = "start"
    /\ err = "none"
    /\ NoGroupYet
    /\ NoUnitCall
    /\ NoMainYet
    /\ NoFitCall

\* soln_group.get_solns(refant_name) of a constructed group
CallGetSolns ==
    /\ pc = "constructed"
    /\ \E refant_name \in RefantNames :
           LET gs == get_solns(metafits_tiles_df, all_chanblocks_hz, solns, refant_name)
           IN  /\ err' = gs.raised
               /\ pc' = IF gs.raised = "none" THEN "get_solns_returned"
                        ELSE "get_solns_raised"
               /\ main' = [NoLocals EXCEPT !.refant_name = refant_name,
                                           !.soln_tile_ids = gs.soln_tile_ids,
                                           !.n_avg_times = gs.n_avg_times]
    /\ UNCHANGED <<unitVars, inputVars, groupVars, fitVars, fit_calls>>

NextGetSolns == NewHyperfitsSolutionGroup \/ CallGetSolns

SpecGetSolns == InitGetSolns /\ [][NextGetSolns]_vars

\* the rows of the tile table that have the requested name
RequestedTiles ==
    {k \in DOMAIN metafits_tiles_df : metafits_tiles_df[k].name = main.refant_name}

\* row k is flagged in the metafits or in the TILES of some solution file
FlaggedSomewhere(k) ==
    \/ metafits_tiles_df[k].flag
    \/ \E i \in DOMAIN solns :
           k <= Len(solns[i].tile_flags) /\ solns[i].tile_flags[k]

\* C13: get_solns with a reference tile name raises when no tile has the
\* name, and when the tile is flagged in the metafits or in the tile flags of
\* any solution file; when it returns, the tile is unflagged in the metafits
\* and in every solution file.
C13_ReferenceTileUnflagged ==
    pc \in {"get_solns_returned", "get_solns_raised"} /\ main.refant_name # None =>
        /\ RequestedTiles = {} => pc = "get_solns_raised"
        /\ (\E k \in RequestedTiles : FlaggedSomewhere(k)) => pc = "get_solns_raised"
        /\ pc = "get_solns_returned" =>
               /\ Cardinality(RequestedTiles) = 1
               /\ \A k \in RequestedTiles : ~FlaggedSomewhere(k)

\* the reference tile is flagged in the second solution file only, and
\* get_solns raises for it
C13_Witness ==
    /\ pc = "get_solns_raised"
    /\ err = "RuntimeError: reference tile is flagged in solutions file"
    /\ Len(solns) = 2
    /\ \E k \in RequestedTiles :
           /\ ~metafits_tiles_df[k].flag
           /\ ~solns[1].tile_flags[k]
           /\ solns[2].tile_flags[k]


-----------------------------------------------------------------------------
(* HyperfitsSolution.get_ref_solutions *)

(* A complex number is [re, im] over the integers.  The four arrays of        *)
(* get_solutions are indexed [time, tile, chan] and the division works on     *)
(* every time and chan alike, so an array is its tile axis: a sequence of     *)
(* complex numbers.  A quotient is [num, den], the number num / den; numpy    *)
(* gives inf and nan and raises nothing when den is 0.                        *)

Complex(re, im) == [re |-> re, im |-> im]

cmul(a, b) == Complex(a.re * b.re - a.im * b.im, a.re * b.im + a.im * b.re)

csub(a, b) == Complex(a.re - b.re, a.im - b.im)

cadd(a, b) == Complex(a.re + b.re, a.im + b.im)

\* lines 323-328 with the reference components of the second entry swapped
DivideByReferenceSwapped(s, r) ==
    LET det == csub(cmul(r[1], r[4]), cmul(r[2], r[3]))
    IN  <<[num |-> csub(cmul(s[1], r[4]), cmul(s[2], r[3])), den |-> det],
          [num |-> csub(cmul(s[2], r[4]), cmul(s[1], r[2])), den |-> det],
          [num |-> csub(cmul(s[3], r[4]), cmul(s[4], r[3])), den |-> det],
          [num |-> csub(cmul(s[4], r[1]), cmul(s[3], r[2])), den |-> det]>>

\* lines 323-328: the four entries of one tile's Jones matrix s times
\* ref_inv_det, r the Jones matrix of the reference tile
DivideByReference(s, r) ==
    LET det == csub(cmul(r[1], r[4]), cmul(r[2], r[3]))
    IN  <<[num |-> csub(cmul(s[1], r[4]), cmul(s[2], r[3])), den |-> det],
          [num |-> csub(cmul(s[2], r[1]), cmul(s[1], r[2])), den |-> det],
          [num |-> csub(cmul(s[3], r[4]), cmul(s[4], r[3])), den |-> det],
          [num |-> csub(cmul(s[4], r[1]), cmul(s[3], r[2])), den |-> det]>>

\* the Jones matrix of tile t in the four arrays
JonesOf(solutions, t) == <<solutions[1][t], solutions[2][t], solutions[3][t], solutions[4][t]>>

\* lines 312-329; ref_tile_idx counts from 0
get_ref_solutions(solutions, ref_tile_idx_is_None, ref_tile_idx) ==
    IF ref_tile_idx_is_None THEN solutions
    ELSE LET r == JonesOf(solutions, ref_tile_idx + 1)
         IN  [p \in 1..4 |->
                 [t \in DOMAIN solutions[p] |->
                     DivideByReference(JonesOf(solutions, t), r)[p]]]

-----------------------------------------------------------------------------
(* get_ref_solutions on its own *)

ComplexValues == {Complex(0, 0), Complex(1, 0), Complex(0, 1), Complex(1, 0 - 1)}

\* the tile axis of the arrays
JonesTileIds == {1, 2}

InitRefSolutions ==
    /\ metafits = <<>>
    /\ solns = <<>>
    /\ pc = "ref_call"
    /\ err = "none"
    /\ NoGroupYet
    /\ NoMainYet
    /\ NoFitCall
    /\ NoGain
    /\ NoDebug
    /\ NoAccess
    /\ NoAngle
    /\ \E solutions \in [1..4 -> [JonesTileIds -> ComplexValues]] :
           jones = [solutions |-> solutions, ref_tile_idx_is_None |-> TRUE,
                    ref_tile_idx |-> 0, ret |-> <<>>]

\* the caller picks the reference tile, or none, and calls
CallGetRefSolutions ==
    /\ pc = "ref_call"
    /\ \E is_None \in BOOLEAN, ref_tile_idx \in {t - 1 : t \in JonesTileIds} :
           /\ is_None => ref_tile_idx = 0
           /\ jones' = [jones EXCEPT
                  !.ref_tile_idx_is_None = is_None,
                  !.ref_tile_idx = ref_tile_idx,
                  !.ret = get_ref_solutions(jones.solutions, is_None, ref_tile_idx)]
    /\ pc' = "ref_returned"
    /\ UNCHANGED <<inputVars, groupVars, fitVars, mainVars, gain, debug, access, angle, err>>

SpecRefSolutions == InitRefSolutions /\ [][CallGetRefSolutions]_vars

\* the reference tile's Jones matrix and its determinant
RefJones == JonesOf(jones.solutions, jones.ref_tile_idx + 1)

RefDet == csub(cmul(RefJones[1], RefJones[4]), cmul(RefJones[2], RefJones[3]))

Zero == Complex(0, 0)

\* the numerators of the result of tile t times the reference matrix give
\* the determinant times the tile's own matrix
TimesReferenceGivesTile(t) ==
    LET n == [p \in 1..4 |-> jones.ret[p][t].num]
        s == JonesOf(jones.solutions, t)
        r == RefJones
    IN  /\ cadd(cmul(n[1], r[1]), cmul(n[2], r[3])) = cmul(RefDet, s[1])
        /\ cadd(cmul(n[1], r[2]), cmul(n[2], r[4])) = cmul(RefDet, s[2])
        /\ cadd(cmul(n[3], r[1]), cmul(n[4], r[3])) = cmul(RefDet, s[3])
        /\ cadd(cmul(n[3], r[2]), cmul(n[4], r[4])) = cmul(RefDet, s[4])

\* the result of tile t is the identity matrix
IsIdentity(t) ==
    /\ jones.ret[1][t].num = jones.ret[1][t].den
    /\ jones.ret[2][t].num = Zero
    /\ jones.ret[3][t].num = Zero
    /\ jones.ret[4][t].num = jones.ret[4][t].den

\* C14: with a reference tile whose determinant is not zero, the result of
\* every tile times the reference matrix is the tile's matrix, and the
\* reference tile's own result is the identity; with no reference tile the
\* solutions come back as they are.
C14_DividedByReference ==
    pc = "ref_returned" =>
        IF jones.ref_tile_idx_is_None THEN jones.ret = jones.solutions
        ELSE RefDet # Zero =>
                 /\ \A t \in JonesTileIds :
                        /\ TimesReferenceGivesTile(t)
                        /\ \A p \in 1..4 : jones.ret[p][t].den = RefDet
                 /\ IsIdentity(jones.ref_tile_idx + 1)

\* the second tile is the reference, its matrix has four non-zero entries and
\* a non-zero determinant, and the first tile's matrix is another one
C14_Witness ==
    /\ pc = "ref_returned"
    /\ ~jones.ref_tile_idx_is_None
    /\ jones.ref_tile_idx = 1
    /\ RefDet # Zero
    /\ \A p \in 1..4 : RefJones[p] # Zero
    /\ JonesOf(jones.solutions, 1) # RefJones
    /\ \A p \in 1..4 : JonesOf(jones.solutions, 1)[p] # Zero


-----------------------------------------------------------------------------
(* fit_gain *)

(* An amplitude is [finite, abs]: whether np.isfinite holds of np.abs(solns)  *)
(* and its value; the weights are floats [nan, num, den] in whole units       *)
(* (den = 1).  A gain is NaN or the quotient [num, den] of the two sums.      *)

RECURSIVE SumOver(_, _)
SumOver(a, S) ==
    IF S = {} THEN 0
    ELSE LET k == CHOOSE j \in S : TRUE IN a[k] + SumOver(a, S \ {k})

\* the mask without the test of the weights
coarse_mask_finite_only(coarse_amps, coarse_weights) ==
    {j \in DOMAIN coarse_amps : coarse_amps[j].finite}

\* lines 1062-1064: the channels of a chunk with a finite amplitude and a
\* weight > 0
coarse_mask(coarse_amps, coarse_weights) ==
    {j \in DOMAIN coarse_amps : coarse_amps[j].finite /\ WeightPositive(coarse_weights[j])}

\* lines 1065-1077: the outputs of one chunk
ChunkFit(coarse_amps, coarse_weights) ==
    LET mask == coarse_mask(coarse_amps, coarse_weights)
    IN  IF Cardinality(mask) < 2
        THEN [gains |-> [nan |-> TRUE, num |-> 0, den |-> 1], pol0 |-> NaN,
              pol1 |-> NaN, sigma_resid |-> NaN]
        ELSE [gains |-> [nan |-> FALSE,
                         num |-> SumOver([j \in DOMAIN coarse_amps |->
                                             coarse_amps[j].abs * coarse_weights[j].num],
                                         mask),
                         den |-> SumOver([j \in DOMAIN coarse_amps |->
                                             coarse_weights[j].num], mask)],
              pol0 |-> Float(0), pol1 |-> Float(0), sigma_resid |-> Float(0)]

NoGainFit(raised) == [raised |-> raised, value |-> None]

\* lines 1040-1088
fit_gain(chanblocks_hz_, solns_, weights, chanblocks_per_coarse_) ==
    IF ~(Len(chanblocks_hz_) = Len(solns_) /\ Len(solns_) = Len(weights))
    THEN NoGainFit("AssertionError")
    ELSE IF chanblocks_per_coarse_ = 0 THEN NoGainFit("ZeroDivisionError")
    ELSE
    LET n_coarse == Len(chanblocks_hz_) \div chanblocks_per_coarse_
    IN  IF n_coarse = 0 THEN NoGainFit("ZeroDivisionError")
        ELSE IF Len(chanblocks_hz_) % n_coarse # 0
        THEN NoGainFit("ValueError: array split does not result in an equal division")
        ELSE
        LET amps == np_split(solns_, n_coarse)
            ws == np_split(weights, n_coarse)
            chunk == [k \in 1..n_coarse |-> ChunkFit(amps[k], ws[k])]
        IN  [raised |-> "none",
             value |-> [quality |-> <<1, 1>>,
                        gains |-> [k \in 1..n_coarse |-> chunk[k].gains],
                        pol0 |-> [k \in 1..n_coarse |-> chunk[k].pol0],
                        pol1 |-> [k \in 1..n_coarse |-> chunk[k].pol1],
                        sigma_resid |-> [k \in 1..n_coarse |-> chunk[k].sigma_resid]]]

-----------------------------------------------------------------------------
(* fit_gain on its own *)

MaxGainChans == 4

Amplitudes == {[finite |-> FALSE, abs |-> 0], [finite |-> TRUE, abs |-> 1],
               [finite |-> TRUE, abs |-> 3]}

GainWeights == FitWeights \cup {[nan |-> FALSE, num |-> 2, den |-> 1]}

InitGain ==
    /\ metafits = <<>>
    /\ solns = <<>>
    /\ pc = "gain_call"
    /\ err = "none"
    /\ NoGroupYet
    /\ NoMainYet
    /\ NoFitCall
    /\ NoJones
    /\ NoDebug
    /\ NoAccess
    /\ NoAngle
    /\ \E n \in 0..MaxGainChans :
           \E amps \in [1..n -> Amplitudes], weights \in [1..n -> GainWeights],
              cpc \in {1, 2} :
               gain = [chanblocks_hz |-> [k \in 1..n |-> k - 1], solns |-> amps,
                       weights |-> weights, chanblocks_per_coarse |-> cpc,
                       ret |-> None]

CallFitGain ==
    /\ pc = "gain_call"
    /\ LET r == fit_gain(gain.chanblocks_hz, gain.solns, gain.weights,
                         gain.chanblocks_per_coarse)
       IN  /\ err' = r.raised
           /\ pc' = IF r.raised = "none" THEN "gain_returned" ELSE "gain_raised"
           /\ gain' = [gain EXCEPT !.ret = r.value]
    /\ UNCHANGED <<inputVars, groupVars, fitVars, mainVars, jones, debug, access, angle>>

SpecGain == InitGain /\ [][CallFitGain]_vars

\* the number of coarse channels of the input
GainCoarseChans == Len(gain.solns) \div gain.chanblocks_per_coarse

\* the channels of chunk k
ChunkChannels(k) ==
    ((k - 1) * gain.chanblocks_per_coarse + 1)..(k * gain.chanblocks_per_coarse)

\* the channels of chunk k with a finite amplitude and a weight > 0
ChunkValidChannels(k) ==
    {j \in ChunkChannels(k) :
        gain.solns[j].finite /\ ~gain.weights[j].nan /\ gain.weights[j].num > 0}

\* the result has one entry for every coarse channel, NaN for a chunk of
\* fewer than 2 valid channels and else the weighted mean of the chunk's valid
\* channels, and the quality 1
GainFitAsStated ==
    /\ pc = "gain_returned"
    /\ Len(gain.ret.gains) = GainCoarseChans
    /\ Len(gain.ret.pol0) = GainCoarseChans
    /\ Len(gain.ret.pol1) = GainCoarseChans
    /\ Len(gain.ret.sigma_resid) = GainCoarseChans
    /\ gain.ret.quality = <<1, 1>>
    /\ \A k \in 1..GainCoarseChans :
           IF Cardinality(ChunkValidChannels(k)) < 2 THEN gain.ret.gains[k].nan
           ELSE /\ ~gain.ret.gains[k].nan
                /\ gain.ret.gains[k].num =
                       SumOver([j \in DOMAIN gain.solns |->
                                   gain.solns[j].abs * gain.weights[j].num],
                               ChunkValidChannels(k))
                /\ gain.ret.gains[k].den =
                       SumOver([j \in DOMAIN gain.solns |-> gain.weights[j].num],
                               ChunkValidChannels(k))

\* C17: for arrays of N * chanblocks_per_coarse channels, N >= 1, fit_gain
\* returns gains, pol0, pol1 and sigma_resid of N entries; entry k of gains
\* is NaN when chunk k has fewer than 2 valid channels and else the weighted
\* mean over the valid channels of chunk k; quality is 1.
C17_GainPerCoarseChannel ==
    /\ pc # "gain_call"
    /\ Len(gain.solns) % gain.chanblocks_per_coarse = 0
    /\ GainCoarseChans >= 1
    => GainFitAsStated

\* C17 as stated, for every N: also for arrays of no channels
C17_GainPerCoarseChannelAnyN ==
    /\ pc # "gain_call"
    /\ Len(gain.solns) % gain.chanblocks_per_coarse = 0
    => GainFitAsStated

\* two chunks of two channels: one with an invalid channel, one with two
\* valid channels of different weights and amplitudes
C17_Witness ==
    /\ pc = "gain_returned"
    /\ gain.chanblocks_per_coarse = 2
    /\ GainCoarseChans = 2
    /\ gain.ret.gains[1].nan
    /\ gain.ret.gains[2] = [nan |-> FALSE, num |-> 7, den |-> 3]


-----------------------------------------------------------------------------
(* reject_outliers and pivot_phase_fits *)

(* A frame of phase fits is [has_outlier, rows]: whether it has the column    *)
(* "outlier", and its rows [tile_id, soln_idx, pol, chi2dof, sigma_resid,     *)
(* outlier] in order (outlier is FALSE while the column is absent).           *)

\* data["pol"].unique(): the polarizations in the order of first appearance
RECURSIVE unique_pols(_, _)
unique_pols(rows, seen) ==
    IF rows = <<>> THEN <<>>
    ELSE IF Head(rows).pol \in seen THEN unique_pols(Tail(rows), seen)
    ELSE <<Head(rows).pol>> \o unique_pols(Tail(rows), seen \cup {Head(rows).pol})

\* line 1237: the rows of a polarization that are not outliers
idx_pol_good(data, pol) ==
    {i \in DOMAIN data.rows : data.rows[i].pol = pol /\ ~data.rows[i].outlier}

\* n * sum(x^2) - sum(x)^2 over the rows idx: n * (n - 1) times the square of
\* their sample standard deviation
ScaledVariance(data, quality_key, idx) ==
    LET n == Cardinality(idx)
        S == SumOver([i \in DOMAIN data.rows |-> data.rows[i][quality_key]], idx)
        Q == SumOver([i \in DOMAIN data.rows |->
                         data.rows[i][quality_key] * data.rows[i][quality_key]], idx)
    IN  n * Q - S * S

\* q - mean >= nstd * std for nstd > 0, with mean and std (one degree of
\* freedom removed) over the rows idx; with fewer than 2 rows the threshold is
\* NaN and no comparison holds
AtOrAboveThresh(data, quality_key, idx, nstd, q) ==
    LET n == Cardinality(idx)
        S == SumOver([i \in DOMAIN data.rows |-> data.rows[i][quality_key]], idx)
    IN  /\ n >= 2
        /\ n * q - S >= 0
        /\ (n * q - S) * (n * q - S) * (n - 1)
               >= nstd * nstd * n * ScaledVariance(data, quality_key, idx)

\* mean - q >= -nstd * std for nstd < 0
AtOrBelowThresh(data, quality_key, idx, nstd, q) ==
    LET n == Cardinality(idx)
        S == SumOver([i \in DOMAIN data.rows |-> data.rows[i][quality_key]], idx)
    IN  /\ n >= 2
        /\ S - n * q >= 0
        /\ (S - n * q) * (S - n * q) * (n - 1)
               >= nstd * nstd * n * ScaledVariance(data, quality_key, idx)

\* lines 1237-1245: the body of the loop over the polarizations
flag_by_thresh(data, quality_key, nstd, pol) ==
    LET idx == idx_pol_good(data, pol)
    IN  [data EXCEPT !.rows = [i \in DOMAIN data.rows |->
            IF    IF nstd >= 0
                  THEN AtOrAboveThresh(data, quality_key, idx, nstd,
                                       data.rows[i][quality_key])
                  ELSE AtOrBelowThresh(data, quality_key, idx, nstd,
                                       data.rows[i][quality_key])
            THEN [data.rows[i] EXCEPT !.outlier = TRUE]
            ELSE data.rows[i]]]

RECURSIVE PolLoop(_, _, _, _)
PolLoop(data, quality_key, nstd, pols) ==
    IF pols = <<>> THEN data
    ELSE PolLoop(flag_by_thresh(data, quality_key, nstd, Head(pols)), quality_key,
                 nstd, Tail(pols))

\* the column "outlier" set to False whether or not the frame has it
reset_outlier_column(data) ==
    [has_outlier |-> TRUE,
     rows |-> [i \in DOMAIN data.rows |-> [data.rows[i] EXCEPT !.outlier = FALSE]]]

\* lines 1234-1235
add_outlier_column(data) ==
    IF ~data.has_outlier
    THEN [has_outlier |-> TRUE,
          rows |-> [i \in DOMAIN data.rows |-> [data.rows[i] EXCEPT !.outlier = FALSE]]]
    ELSE data

\* lines 1227-1247
reject_outliers(data, quality_key, nstd) ==
    IF nstd = 0 THEN data
    ELSE PolLoop(add_outlier_column(data), quality_key, nstd,
                 unique_pols(data.rows, {}))

nstd_default == 3

\* the rows of a polarization, in order
RECURSIVE RowsOfPol(_, _)
RowsOfPol(rows, pol) ==
    IF rows = <<>> THEN <<>>
    ELSE (IF Head(rows).pol = pol THEN <<Head(rows)>> ELSE <<>>)
             \o RowsOfPol(Tail(rows), pol)

\* lines 1573-1578: the XX row x merged with the YY rows of its tile_id
RECURSIVE MergeOne(_, _)
MergeOne(x, yy) ==
    IF yy = <<>> THEN <<>>
    ELSE (IF Head(yy).tile_id = x.tile_id
          THEN <<[tile_id |-> x.tile_id, soln_idx |-> x.soln_idx,
                  chi2dof_xx |-> x.chi2dof, chi2dof_yy |-> Head(yy).chi2dof,
                  sigma_resid_xx |-> x.sigma_resid,
                  sigma_resid_yy |-> Head(yy).sigma_resid,
                  outlier_xx |-> x.outlier, outlier_yy |-> Head(yy).outlier]>>
          ELSE <<>>) \o MergeOne(x, Tail(yy))

\* lines 1573-1578: pd.merge of the XX rows with the YY rows on tile_id
RECURSIVE MergePols(_, _)
MergePols(xx, yy) ==
    IF xx = <<>> THEN <<>>
    ELSE MergeOne(Head(xx), yy) \o MergePols(Tail(xx), yy)

\* line 1579: the merged row m with the metadata rows of its tile_id
RECURSIVE MergeTile(_, _)
MergeTile(m, tiles_) ==
    IF tiles_ = <<>> THEN <<>>
    ELSE (IF Head(tiles_).id = m.tile_id
          THEN <<[tile_id |-> m.tile_id, soln_idx |-> m.soln_idx,
                  name |-> Head(tiles_).name,
                  chi2dof_xx |-> m.chi2dof_xx, chi2dof_yy |-> m.chi2dof_yy,
                  sigma_resid_xx |-> m.sigma_resid_xx,
                  sigma_resid_yy |-> m.sigma_resid_yy,
                  outlier_xx |-> m.outlier_xx, outlier_yy |-> m.outlier_yy]>>
          ELSE <<>>) \o MergeTile(m, Tail(tiles_))

\* line 1579: pd.merge with the tile metadata, tile_id on id
RECURSIVE MergeTiles(_, _)
MergeTiles(merged, tiles_) ==
    IF merged = <<>> THEN <<>>
    ELSE MergeTile(Head(merged), tiles_) \o MergeTiles(Tail(merged), tiles_)

\* lines 1565-1588
pivot_phase_fits(phase_fits, tiles_) ==
    MergeTiles(MergePols(RowsOfPol(phase_fits.rows, "XX"),
                         RowsOfPol(phase_fits.rows, "YY")), tiles_)

-----------------------------------------------------------------------------
(* debug_phase_fits: the two outlier passes and the pivot *)

MaxFitRows == 3

FitRows ==
    [tile_id : {1, 2}, soln_idx : {0}, pol : {"XX", "YY"}, chi2dof : {1, 2, 9},
     sigma_resid : {1, 2}, outlier : {FALSE}]

TileTables ==
    {<<[id |-> 1, name |-> "Tile1"], [id |-> 2, name |-> "Tile2"]>>,
     <<[id |-> 1, name |-> "Tile1"]>>}

InitDebug ==
    /\ metafits = <<>>
    /\ solns = <<>>
    /\ pc = "debug_phase_fits"
    /\ err = "none"
    /\ NoGroupYet
    /\ NoMainYet
    /\ NoFitCall
    /\ NoJones
    /\ NoGain
    /\ NoAccess
    /\ NoAngle
    /\ \E n \in 0..MaxFitRows :
           \E rows \in [1..n -> FitRows], tiles_ \in TileTables :
               debug = [phase_fits |-> [has_outlier |-> FALSE, rows |-> rows],
                        tiles |-> tiles_,
                        entry |-> [has_outlier |-> FALSE, rows |-> rows],
                        quality_key |-> None,
                        ret |-> None]

\* lines 1152-1154
ReturnNoFits ==
    /\ pc = "debug_phase_fits"
    /\ Len(debug.phase_fits.rows) = 0
    /\ pc' = "debug_returned_None"
    /\ UNCHANGED <<inputVars, groupVars, fitVars, mainVars, jones, gain, debug, access, angle, err>>

\* line 1156
RejectChi2dof ==
    /\ pc = "debug_phase_fits"
    /\ Len(debug.phase_fits.rows) # 0
    /\ debug' = [debug EXCEPT
                    !.entry = debug.phase_fits,
                    !.quality_key = "chi2dof",
                    !.phase_fits = reject_outliers(debug.phase_fits, "chi2dof",
                                                   nstd_default)]
    /\ pc' = "chi2dof_rejected"
    /\ UNCHANGED <<inputVars, groupVars, fitVars, mainVars, jones, gain, access, angle, err>>

\* line 1157
RejectSigmaResid ==
    /\ pc = "chi2dof_rejected"
    /\ debug' = [debug EXCEPT
                    !.entry = debug.phase_fits,
                    !.quality_key = "sigma_resid",
                    !.phase_fits = reject_outliers(debug.phase_fits, "sigma_resid",
                                                   nstd_default)]
    /\ pc' = "sigma_resid_rejected"
    /\ UNCHANGED <<inputVars, groupVars, fitVars, mainVars, jones, gain, access, angle, err>>

\* lines 1159-1161
ReturnNoGood ==
    /\ pc = "sigma_resid_rejected"
    /\ \A i \in DOMAIN debug.phase_fits.rows : debug.phase_fits.rows[i].outlier
    /\ pc' = "debug_returned_None"
    /\ UNCHANGED <<inputVars, groupVars, fitVars, mainVars, jones, gain, debug, access, angle, err>>

\* lines 1159-1224
PivotPhaseFits ==
    /\ pc = "sigma_resid_rejected"
    /\ \E i \in DOMAIN debug.phase_fits.rows : ~debug.phase_fits.rows[i].outlier
    /\ debug' = [debug EXCEPT !.ret = pivot_phase_fits(debug.phase_fits, debug.tiles)]
    /\ pc' = "debug_returned"
    /\ UNCHANGED <<inputVars, groupVars, fitVars, mainVars, jones, gain, access, angle, err>>

NextDebug ==
    \/ ReturnNoFits
    \/ RejectChi2dof
    \/ RejectSigmaResid
    \/ ReturnNoGood
    \/ PivotPhaseFits

SpecDebug == InitDebug /\ [][NextDebug]_vars


\* q > mean + nstd * std, with mean and std over the rows idx
ExceedsThresh(data, quality_key, idx, nstd, q) ==
    LET n == Cardinality(idx)
        S == SumOver([i \in DOMAIN data.rows |-> data.rows[i][quality_key]], idx)
    IN  /\ n >= 2
        /\ n * q - S > 0
        /\ (n * q - S) * (n * q - S) * (n - 1)
               > nstd * nstd * n * ScaledVariance(data, quality_key, idx)

\* the frame of the last call of reject_outliers when its loop reaches pol
FrameBeforePol(pol) ==
    LET data == add_outlier_column(debug.entry)
        pols == unique_pols(debug.entry.rows, {})
    IN  IF pols[1] = pol THEN data
        ELSE flag_by_thresh(data, debug.quality_key, nstd_default, pols[1])

\* the rows the last call of reject_outliers flagged
NewlyFlagged ==
    {i \in DOMAIN debug.phase_fits.rows :
        debug.phase_fits.rows[i].outlier /\ ~debug.entry.rows[i].outlier}

\* C18: reject_outliers flags a row only when the row's metric exceeds
\* mean + nstd * std over the not yet flagged rows of the row's own
\* polarization; the threshold of one polarization flags no row of the other.
C18_FlaggedByOwnPolarization ==
    pc \in {"chi2dof_rejected", "sigma_resid_rejected"} =>
        \A i \in NewlyFlagged :
            LET row == debug.phase_fits.rows[i]
                before == FrameBeforePol(row.pol)
            IN  ExceedsThresh(before, debug.quality_key, idx_pol_good(before, row.pol),
                              nstd_default, row[debug.quality_key])

\* a row without its outlier mark
Unmarked(row) == [row EXCEPT !.outlier = FALSE]

\* C19: in each of the two outlier passes of debug_phase_fits,
\* reject_outliers keeps every row at its place, changes no column other than
\* "outlier", and never takes an outlier mark back.
C19_OnlyOutlierMarksAdded ==
    [][pc' \in {"chi2dof_rejected", "sigma_resid_rejected"} =>
          /\ DOMAIN debug'.phase_fits.rows = DOMAIN debug.phase_fits.rows
          /\ \A i \in DOMAIN debug.phase_fits.rows :
                 /\ Unmarked(debug'.phase_fits.rows[i]) = Unmarked(debug.phase_fits.rows[i])
                 /\ debug.phase_fits.rows[i].outlier => debug'.phase_fits.rows[i].outlier]_vars

\* the first pass has flagged a row and the second pass another one
C19_Witness ==
    /\ pc = "sigma_resid_rejected"
    /\ \E i \in DOMAIN debug.entry.rows : debug.entry.rows[i].outlier
    /\ NewlyFlagged # {}

\* the tile ids of the fit rows that have metadata
PivotTileIds ==
    {debug.phase_fits.rows[i].tile_id : i \in DOMAIN debug.phase_fits.rows}
        \cap {debug.tiles[k].id : k \in DOMAIN debug.tiles}

\* the pivoted row p carries an XX fit row and a YY fit row of its tile
CarriesFitsOfTile(p) ==
    \E i, j \in DOMAIN debug.phase_fits.rows :
        LET x == debug.phase_fits.rows[i]
            y == debug.phase_fits.rows[j]
        IN  /\ x.pol = "XX" /\ x.tile_id = p.tile_id
            /\ y.pol = "YY" /\ y.tile_id = p.tile_id
            /\ p.chi2dof_xx = x.chi2dof /\ p.sigma_resid_xx = x.sigma_resid
            /\ p.outlier_xx = x.outlier
            /\ p.chi2dof_yy = y.chi2dof /\ p.sigma_resid_yy = y.sigma_resid
            /\ p.outlier_yy = y.outlier

\* C20: pivot_phase_fits returns exactly one row for every tile id of the fit
\* rows that has metadata, with the tile's XX fields as _xx and its YY fields
\* as _yy: no tile with a fit row is missing and none appears twice.
C20_OneRowPerTile ==
    pc = "debug_returned" =>
        /\ \A t \in PivotTileIds :
               Cardinality({j \in DOMAIN debug.ret : debug.ret[j].tile_id = t}) = 1
        /\ \A j \in DOMAIN debug.ret :
               debug.ret[j].tile_id \in PivotTileIds /\ CarriesFitsOfTile(debug.ret[j])


-----------------------------------------------------------------------------
(* The accessors of a constructed HyperfitsSolutionGroup *)

(* The local name of a frame is [aliased, frame]: whether the name refers to  *)
(* the frame stored in the group, and the frame it refers to.  A write        *)
(* through an aliased name is a write to the stored frame.                    *)

\* the local name bound to the stored frame itself
df_itself(stored) == [aliased |-> TRUE, frame |-> stored]

\* lines 550 and 642: the local name bound to df.copy()
df_copy(stored) == [aliased |-> FALSE, frame |-> stored]

\* the stored frame after the writes through the local name
StoredAfter(stored, local) == IF local.aliased THEN local.frame ELSE stored

\* lines 552-557 and 643-648: the frame with its flag column or-ed with flags
MergeFlags(tiles, flags) ==
    [k \in DOMAIN tiles |->
        [tiles[k] EXCEPT !.flag = @ \/ (k <= Len(flags) /\ flags[k])]]

\* lines 551-558: the local tiles_df after the loop over the solutions from i on
RECURSIVE RefantFrames(_, _, _)
RefantFrames(tiles_df_, sols, i) ==
    IF i > Len(sols) \/ Len(sols[i].tile_flags) # Len(tiles_df_.frame) THEN tiles_df_
    ELSE RefantFrames([tiles_df_ EXCEPT !.frame = MergeFlags(@, sols[i].tile_flags)],
                      sols, i + 1)

\* lines 550-558: the stored tile table after refant
refant_self(tiles, sols) ==
    StoredAfter(tiles, RefantFrames(df_copy(tiles), sols, 1))

\* the number of solutions the loop of get_solns enters
SolnsEntered(tiles, all_hz, sols, refant_name) ==
    IF get_solns(tiles, all_hz, sols, refant_name).raised = "none" THEN Len(sols)
    ELSE CHOOSE i \in 0..Len(sols) :
             /\ get_solns(tiles, all_hz, SubSeq(sols, 1, i), refant_name).raised # "none"
             /\ \A j \in 1..(i - 1) :
                    get_solns(tiles, all_hz, SubSeq(sols, 1, j), refant_name).raised = "none"

\* lines 642-648: the stored tile table after the first n iterations of the
\* loop of get_solns, each of which writes the merged flags to soln_tiles
RECURSIVE GetSolnsSelf(_, _, _)
GetSolnsSelf(tiles, sols, n) ==
    IF n = 0 THEN tiles
    ELSE LET before == GetSolnsSelf(tiles, sols, n - 1)
         IN  IF Len(sols[n].tile_flags) # Len(before) THEN before
             ELSE StoredAfter(before,
                              [df_copy(before) EXCEPT
                                  !.frame = MergeFlags(@, sols[n].tile_flags)])

\* lines 584-593: the time dimensions of the blocks of results, or the
\* exception
RECURSIVE ResultsBlocks(_, _, _)
ResultsBlocks(sols, all_hz, i) ==
    IF i > Len(sols) \/ i > Len(all_hz) THEN [raised |-> "none", ntimes |-> <<>>]
    ELSE LET per_time == results_per_time(sols[i])
             rest == ResultsBlocks(sols, all_hz, i + 1)
         IN  IF per_time.raised # "none" THEN [raised |-> per_time.raised, ntimes |-> <<>>]
             ELSE IF Len(sols[i].chanblocks_hz) # Len(all_hz[i])
             THEN [raised |-> "RuntimeError: number of chanblocks does not match results width",
                   ntimes |-> <<>>]
             ELSE IF rest.raised # "none" THEN rest
             ELSE [raised |-> "none", ntimes |-> <<per_time.rows>> \o rest.ntimes]

\* lines 597-598: the blocks concatenated along the channels and flattened;
\* every timeblock of a file has the row results_row
RECURSIVE Flattened(_, _)
Flattened(rows, ntime) ==
    IF ntime = 0 THEN <<>> ELSE Concat(rows) \o Flattened(rows, ntime - 1)

\* lines 577-600
group_results(sols, all_hz) ==
    LET blocks == ResultsBlocks(sols, all_hz, 1)
        rows == [i \in DOMAIN sols |-> sols[i].results_row]
    IN  IF blocks.raised # "none" THEN [raised |-> blocks.raised, ret |-> <<>>]
        ELSE IF blocks.ntimes = <<>>
        THEN [raised |-> "IndexError: list index out of range", ret |-> <<>>]
        ELSE IF \E i \in DOMAIN blocks.ntimes : blocks.ntimes[i] # blocks.ntimes[1]
        THEN [raised |-> "RuntimeError: Results time dimension mismatch across solutions",
              ret |-> <<>>]
        ELSE IF Flattened(rows, blocks.ntimes[1]) = <<>>
        THEN [raised |-> "RuntimeError: No valid results found", ret |-> <<>>]
        ELSE [raised |-> "none", ret |-> Flattened(rows, blocks.ntimes[1])]

\* lines 603-616: no test of the denominator; 0 / 0 and NaN become 0
group_weights(sols, all_hz) ==
    LET results == group_results(sols, all_hz)
        r == results.ret
        filtered == [k \in DOMAIN r |-> invalid_to_nan(r[k])]
        exp_results == [k \in DOMAIN r |-> exp_neg(filtered[k])]
        hi == np_nanmax(exp_results)
        lo == np_nanmin(exp_results)
    IN  IF results.raised # "none" THEN results
        ELSE [raised |-> "none",
              ret |-> [k \in DOMAIN r |->
                         nan_to_num(IF exp_results[k].nan \/ hi.nan \/ lo.nan
                                       \/ hi.v = lo.v
                                    THEN NaNWeight
                                    ELSE [nan |-> FALSE, num |-> exp_results[k].v - lo.v,
                                          den |-> hi.v - lo.v])]]

\* lines 565-569
calibrator(mf) == {mf[i].calibrator : i \in DOMAIN mf} \ {None}

-----------------------------------------------------------------------------
(* Any accessors in any order on a constructed group *)

Calibrators == {None, "HerA"}

\* the values of a RESULTS row: converged twice, above 1e-4
AccessResultValues == {Float(0), Float(5), Float(RMax + 1)}

\* the rows of the RESULTS of the files, one row for each file
RECURSIVE AccessResultRows(_)
AccessResultRows(sols) ==
    IF sols = <<>> THEN {<<>>}
    ELSE {<<row>> \o rows : row \in [1..Len(Head(sols).chanblocks_hz) -> AccessResultValues],
                            rows \in AccessResultRows(Tail(sols))}

InitAccess ==
    /\ \E f \in MainFiles, c \in Calibrators :
           /\ metafits = [i \in DOMAIN f.metafits |->
                             f.metafits[i] @@ [calibrator |-> c]]
           /\ \E rows \in AccessResultRows(f.solns) :
                  solns = [i \in DOMAIN f.solns |->
                              f.solns[i] @@ [results_row |-> rows[i]]]
    /\ pc = "start"
    /\ err = "none"
    /\ NoGroupYet
    /\ NoUnitCall
    /\ NoMainYet
    /\ NoFitCall

Accessed(name, raised, ret) == [accessor |-> name, raised |-> raised, ret |-> ret]

Get_refant ==
    /\ pc = "constructed"
    /\ LET r == refant(metafits_tiles_df, solns)
       IN  access' = Accessed("refant", r.raised, r.tile)
    /\ metafits_tiles_df' = refant_self(metafits_tiles_df, solns)
    /\ UNCHANGED <<inputVars, metafits_chan_info, chanblocks_per_coarse,
                   all_chanblocks_hz, fitVars, mainVars, jones, gain, debug, angle,
                   pc, err>>

Call_get_solns ==
    /\ pc = "constructed"
    /\ \E refant_name \in {None, TileNames[1], TileNames[2]} :
           LET gs == get_solns(metafits_tiles_df, all_chanblocks_hz, solns, refant_name)
           IN  /\ access' = Accessed("get_solns", gs.raised,
                                     <<refant_name, gs.soln_tile_ids, gs.n_avg_times>>)
               /\ metafits_tiles_df' =
                      GetSolnsSelf(metafits_tiles_df, solns,
                                   SolnsEntered(metafits_tiles_df, all_chanblocks_hz,
                                                solns, refant_name))
    /\ UNCHANGED <<inputVars, metafits_chan_info, chanblocks_per_coarse,
                   all_chanblocks_hz, fitVars, mainVars, jones, gain, debug, angle,
                   pc, err>>

Get_results ==
    /\ pc = "constructed"
    /\ LET r == group_results(solns, all_chanblocks_hz)
       IN  access' = Accessed("results", r.raised, r.ret)
    /\ UNCHANGED <<inputVars, groupVars, fitVars, mainVars, jones, gain, debug, angle,
                   pc, err>>

Get_weights ==
    /\ pc = "constructed"
    /\ LET w == group_weights(solns, all_chanblocks_hz)
       IN  access' = Accessed("weights", w.raised, w.ret)
    /\ UNCHANGED <<inputVars, groupVars, fitVars, mainVars, jones, gain, debug, angle,
                   pc, err>>

Get_calibrator ==
    /\ pc = "constructed"
    /\ access' = Accessed("calibrator", "none", calibrator(metafits))
    /\ UNCHANGED <<inputVars, groupVars, fitVars, mainVars, jones, gain, debug, angle,
                   pc, err>>

Get_obsids ==
    /\ pc = "constructed"
    /\ access' = Accessed("obsids", "none", obsids(metafits))
    /\ UNCHANGED <<inputVars, groupVars, fitVars, mainVars, jones, gain, debug, angle,
                   pc, err>>

NextAccess ==
    \/ NewHyperfitsSolutionGroup
    \/ Get_refant
    \/ Call_get_solns
    \/ Get_results
    \/ Get_weights
    \/ Get_calibrator
    \/ Get_obsids

SpecAccess == InitAccess /\ [][NextAccess]_vars

\* C22: after construction no accessor of the group (refant, results,
\* weights, get_solns, calibrator, obsids), in any number and order, changes
\* metafits_tiles_df, metafits_chan_info, chanblocks_per_coarse or
\* all_chanblocks_hz; the solution flags that refant and get_solns merge do
\* not reach the flag column of the stored tile table.
C22_AccessorsLeaveGroupUnchanged ==
    [][pc = "constructed" => UNCHANGED groupVars]_vars

\* refant has passed over a tile that only a solution file flags, and the
\* stored table still has the tile unflagged
C22_Witness ==
    /\ pc = "constructed"
    /\ access.accessor = "refant"
    /\ access.raised = "none"
    /\ access.ret.id # metafits_tiles_df[1].id
    /\ ~metafits_tiles_df[1].flag
    /\ solns[1].tile_flags[1]


-----------------------------------------------------------------------------
(* wrap_angle *)

(* A float64 near a small multiple of np.pi is [pi, u]: the number            *)
(* pi * np.pi + u * 2^-51, exactly.  2^-51 is the spacing of the float64 in   *)
(* [2, 4), where np.pi = 7074237752028440 * 2^-51 lies; the float64 in [4, 8) *)
(* are the even multiples of 2^-51, and 2 * np.pi has the mantissa of np.pi,  *)
(* which is even.  Sums are rounded to the nearest float64, ties to the even  *)
(* mantissa.                                                                  *)

F64(a, b) == [pi |-> a, u |-> b]

np_pi == F64(1, 0)

\* the nearest even multiple of 2^-51 near 2 * np.pi: of the two neighbours
\* of an odd multiple, the one whose mantissa (that of np.pi, plus b / 2) is
\* even
RoundNear2Pi(b) ==
    IF b % 2 = 0 THEN b
    ELSE IF (b - 1) % 4 = 0 THEN b - 1
    ELSE b + 1

\* the float64 of the real number x.pi * np.pi + x.u * 2^-51, x.pi in -1..2
fl(x) == IF x.pi = 2 THEN F64(2, RoundNear2Pi(x.u)) ELSE x

\* a + np.pi and a - np.pi
plus_pi(a) == fl(F64(a.pi + 1, a.u))

minus_pi(a) == fl(F64(a.pi - 1, a.u))

IsNegative(a) == a.pi < 0 \/ (a.pi = 0 /\ a.u < 0)

\* np.mod(a, 2 * np.pi), 0 <= a.pi <= 2: fmod, to which the divisor is added
\* when it is not zero and of the other sign
np_mod_2pi(a) ==
    LET fmod == IF a.pi = 2 /\ a.u >= 0 THEN F64(0, a.u) ELSE a
    IN  IF IsNegative(fmod) THEN fl(F64(fmod.pi + 2, fmod.u)) ELSE fmod

\* lines 826-828
wrap_angle(a) == minus_pi(np_mod_2pi(plus_pi(a)))

-----------------------------------------------------------------------------
(* wrap_angle on its own, applied twice *)

MaxUlps == 20

InitAngle ==
    /\ metafits = <<>>
    /\ solns = <<>>
    /\ pc = "wrap_angle"
    /\ err = "none"
    /\ NoGroupYet
    /\ NoMainYet
    /\ NoFitCall
    /\ NoJones
    /\ NoGain
    /\ NoDebug
    /\ NoAccess
    /\ \E a \in {0 - 1, 0, 1}, b \in (0 - MaxUlps)..MaxUlps :
           angle = [x |-> F64(a, b), once |-> None, twice |-> None]

WrapAngle ==
    /\ pc = "wrap_angle"
    /\ angle' = [angle EXCEPT !.once = wrap_angle(angle.x)]
    /\ pc' = "wrapped"
    /\ UNCHANGED <<inputVars, groupVars, fitVars, mainVars, jones, gain, debug, access,
                   err>>

WrapAngleAgain ==
    /\ pc = "wrapped"
    /\ angle' = [angle EXCEPT !.twice = wrap_angle(angle.once)]
    /\ pc' = "wrapped_twice"
    /\ UNCHANGED <<inputVars, groupVars, fitVars, mainVars, jones, gain, debug, access,
                   err>>

NextAngle == WrapAngle \/ WrapAngleAgain

SpecAngle == InitAngle /\ [][NextAngle]_vars

\* -np.pi <= a < np.pi
InHalfOpenRange(a) ==
    \/ a.pi = 0 - 1 /\ a.u >= 0
    \/ a.pi = 0
    \/ a.pi = 1 /\ a.u < 0

\* a - b is a whole multiple of 2 * np.pi, to the spacing of the float64
DiffersByTurns(a, b) ==
    /\ (a.pi - b.pi) % 2 = 0
    /\ a.u - b.u \in {0 - 1, 0, 1}

\* C23: wrap_angle(x) lies in [-pi, pi), differs from x by a whole multiple
\* of 2 * pi, and wrap_angle(wrap_angle(x)) = wrap_angle(x).
C23_WrapAngleIdempotentInRange ==
    /\ pc \in {"wrapped", "wrapped_twice"} =>
           InHalfOpenRange(angle.once) /\ DiffersByTurns(angle.once, angle.x)
    /\ pc = "wrapped_twice" => angle.twice = angle.once

====
